---- MODULE Spec2Model ----
(***************************************************************************)
(* Model of the claude-code-remote server: the WebSocket session           *)
(* multiplexer (index.ts), the PTY session (pty-session.ts), the session   *)
(* manager (session-manager.ts) and the process detector                   *)
(* (process-detector.ts).                                                  *)
(*                                                                         *)
(* Node runs every handler to completion on one thread, so one handler     *)
(* (or one continuation of an async function, from one await to the next)  *)
(* is one action.                                                          *)
(***************************************************************************)
EXTENDS Integers, Sequences, FiniteSets, TLC

\* ---------------------------------------------------------------- bounds
MaxChunks == 2        \* PTY reads, over all sessions
MaxHandlers == 2      \* handler closures ever created
MaxRuns == 2          \* executeSchedule calls
MaxEvents == 3        \* events of the child of one run
MaxSwitches == 4   \* handler closures created while a page switches sessions
MaxInputs == 2        \* text frames forwarded to one PTY

\* ------------------------------------------------------- program constants
MAX_HISTORY_SIZE == 100000
KiB100 == 100 * 1024   \* the capacity the specification states, in bytes

Clients == {1, 2}     \* connections accepted by wss.on('connection')
SessionIds == {1, 2}  \* ids createSession draws (uuid prefixes)
Pids == 1..3          \* process ids the operating system hands out
NULL == 0
ServerPid == 1        \* process.pid
Dirs == {"/d1", "/d2"}                    \* existing directories
CwdInputs == {"", "/missing", "/file"}    \* message.cwd of session:create
ProcessCwd == "/d2"   \* process.cwd()
ChunkSizes == {40000, 70000}              \* lengths of the strings node-pty delivers
Tokens == {"", "good", "bad"}
CommandTypes ==
  {"auth", "preferences:set", "session:list", "session:discover", "session:create",
   "session:attach", "session:adopt", "session:destroy", "resize", "image:upload",
   "schedule:create", "schedule:update", "schedule:delete", "schedule:trigger",
   "schedule:list", "schedule:runs", "schedule:log", "bogus"}

VARIABLES
  state,      \* ClientState of each connection
  ws,         \* the WebSocket of each connection: readyState, isAuthenticated
  out,        \* the frames the last handler sent, per connection
  sessions,   \* SessionManager.sessions: the ids in the registry
  objs,       \* every PtySession object constructed, by id
  procs,      \* the operating system's process table, by pid
  adopts,     \* adoptExternalSession calls that have not settled yet
  signals,    \* the signals the last step sent with process.kill
  nextHandler,\* number of handler closures created so far, plus one
  now,        \* Date.now(), in milliseconds since the server was first started
  schedules,  \* Scheduler.schedules: the ids in the map
  sobjs,      \* every Schedule object of this process, by id
  cronJobs,   \* Scheduler.cronJobs: the ids that have a task in the map
  tasks,      \* node-cron: the number of running tasks of each schedule id
  timers,     \* setTimeout: the schedule ids whose delayed execution is pending
  runs,       \* every executeSchedule call, in order
  disk,       \* the dot-directory: schedules.json, runs/<id>, the log files
  browser     \* the web client of each connection: its terminal and session cache

\* the clock and the scheduler
schedVars == <<now, schedules, sobjs, cronJobs, tasks, timers, runs, disk>>

\* the connections and the sessions
muxVars == <<state, ws, sessions, objs, procs, adopts, nextHandler>>

vars == <<state, ws, out, sessions, objs, procs, adopts, signals, nextHandler,
          now, schedules, sobjs, cronJobs, tasks, timers, runs, disk, browser>>

\* ---------------------------------------------------------------- helpers
Min(a, b) == IF a < b THEN a ELSE b

\* A handler closure: the connection and session it closes over, its identity n,
\* and the number of chunks the session had read when it was subscribed.
NoHandler == [c |-> 0, sid |-> 0, n |-> 0, from |-> 0]

\* A control event (binary frame): its type, the session it names, the handler
\* closure that sent it (0: the command handler itself) and the number of chunks
\* that session had read when it was sent.
Ctl(t, sid, hn, pos) == [t |-> t, sid |-> sid, h |-> hn, pos |-> pos, data |-> <<>>]

\* A text frame: live output (sent by an outputHandler) or replayed history.
Text(t, sid, hn, pos, data) == [t |-> t, sid |-> sid, h |-> hn, pos |-> pos, data |-> data]

ErrorEvent == Ctl("error", NULL, 0, 0)

None == [c \in Clients |-> <<>>]

\* ws.send(frame) on connection c, after the frames fr of this handler: a socket
\* that is not OPEN delivers nothing.
WsSend(fr, c, frame) ==
  IF ws[c].readyState = "OPEN" THEN [fr EXCEPT ![c] = Append(@, frame)] ELSE fr

\* sendControl
sendControl(fr, c, frame) == WsSend(fr, c, frame)

\* ------------------------------------------------------------ web client
\* The page of a connection. on: the connection is served by app.js;
\* terminal: the chunks written to xterm, as <<session, chunk number>>;
\* sessionCache: the serialized terminal of the sessions left; target and
\* hasCache: the session:attach sent last, target NULL once it is answered
NoPage ==
  [on |-> FALSE, currentSessionId |-> NULL, terminal |-> {}, sessionCache |-> <<>>,
   target |-> NULL, hasCache |-> FALSE]

\* sessionCache.delete(sessionId)
CacheDelete(cache, sid) == [k \in DOMAIN cache \ {sid} |-> cache[k]]

\* ws.onmessage of app.js for one frame: terminal output is written to the
\* terminal; session:created and session:attached set currentSessionId and
\* clear the terminal unless the session had cached content (the serialized
\* content of a terminal that was attached holds the connection banner and is
\* never the empty string); session:exit and session:destroyed run
\* removeSession (the tab list is left out)
OnMessage(b, f) ==
  IF f.t \in {"live", "history"}
  THEN [b EXCEPT !.terminal = @ \cup {<<f.sid, f.data[i].n>> : i \in DOMAIN f.data}]
  ELSE IF f.t \in {"session:created", "session:attached"}
  THEN LET hadCache == f.sid \in DOMAIN b.sessionCache
       IN [b EXCEPT !.currentSessionId = f.sid, !.target = NULL,
                    !.terminal = IF f.t = "session:created" \/ ~hadCache THEN {} ELSE @]
  ELSE IF f.t \in {"session:exit", "session:destroyed"}
  THEN [b EXCEPT !.sessionCache = CacheDelete(@, f.sid),
                 !.currentSessionId = IF @ = f.sid THEN NULL ELSE @,
                 !.terminal = IF b.currentSessionId = f.sid THEN {} ELSE @]
  ELSE IF f.t = "error" THEN [b EXCEPT !.target = NULL]
  ELSE b

\* the frames fs arrive at the page b in order
RECURSIVE OnMessages(_, _)
OnMessages(b, fs) == IF fs = <<>> THEN b ELSE OnMessages(OnMessage(b, fs[1]), Tail(fs))

\* the pages after the frames fr have arrived
Deliver(fr) ==
  [c \in Clients |-> IF browser[c].on THEN OnMessages(browser[c], fr[c]) ELSE browser[c]]

\* the frames fr have been sent, and received by the pages
Sends(fr) == out' = fr /\ browser' = Deliver(fr)

\* validateToken
validateToken(token) == token = "good"

\* -------------------------------------------------------------- Scheduler
SchedIds == {1, 2}    \* ids createSchedule draws (random hex strings)
THREE_HOURS_MS == 3 * 60 * 60 * 1000
RETENTION_DAYS == 7
ACTIVITY_THRESHOLD_MS == 30000

\* the retention period in milliseconds
RetentionMs == RETENTION_DAYS * 24 * 60 * 60 * 1000

PresetConfig(cron, randomDelayMs) == [cron |-> cron, randomDelayMs |-> randomDelayMs]

\* a PRESETS whose weekday evening slot fires every day
PRESETSEveryEvening ==
  [l \in {"Daily (morning)", "Daily (afternoon)", "Daily (evening)",
          "Weekdays (morning)", "Weekdays (afternoon)", "Weekdays (evening)",
          "Weekly (morning)", "Weekly (afternoon)", "Weekly (evening)"} |->
     CASE l = "Daily (morning)" -> PresetConfig("0 7 * * *", THREE_HOURS_MS)
       [] l = "Daily (afternoon)" -> PresetConfig("0 12 * * *", THREE_HOURS_MS)
       [] l = "Daily (evening)" -> PresetConfig("0 17 * * *", THREE_HOURS_MS)
       [] l = "Weekdays (morning)" -> PresetConfig("0 7 * * 1-5", THREE_HOURS_MS)
       [] l = "Weekdays (afternoon)" -> PresetConfig("0 12 * * 1-5", THREE_HOURS_MS)
       [] l = "Weekdays (evening)" -> PresetConfig("0 17 * * *", THREE_HOURS_MS)
       [] l = "Weekly (morning)" -> PresetConfig("0 7 * * 1", THREE_HOURS_MS)
       [] l = "Weekly (afternoon)" -> PresetConfig("0 12 * * 1", THREE_HOURS_MS)
       [] l = "Weekly (evening)" -> PresetConfig("0 17 * * 1", THREE_HOURS_MS)]

\* const PRESETS: Record<string, PresetConfig>
PRESETS ==
  [l \in {"Daily (morning)", "Daily (afternoon)", "Daily (evening)",
          "Weekdays (morning)", "Weekdays (afternoon)", "Weekdays (evening)",
          "Weekly (morning)", "Weekly (afternoon)", "Weekly (evening)"} |->
     CASE l = "Daily (morning)" -> PresetConfig("0 7 * * *", THREE_HOURS_MS)
       [] l = "Daily (afternoon)" -> PresetConfig("0 12 * * *", THREE_HOURS_MS)
       [] l = "Daily (evening)" -> PresetConfig("0 17 * * *", THREE_HOURS_MS)
       [] l = "Weekdays (morning)" -> PresetConfig("0 7 * * 1-5", THREE_HOURS_MS)
       [] l = "Weekdays (afternoon)" -> PresetConfig("0 12 * * 1-5", THREE_HOURS_MS)
       [] l = "Weekdays (evening)" -> PresetConfig("0 17 * * 1-5", THREE_HOURS_MS)
       [] l = "Weekly (morning)" -> PresetConfig("0 7 * * 1", THREE_HOURS_MS)
       [] l = "Weekly (afternoon)" -> PresetConfig("0 12 * * 1", THREE_HOURS_MS)
       [] l = "Weekly (evening)" -> PresetConfig("0 17 * * 1", THREE_HOURS_MS)]

\* the labels of PRESETS
Presets == DOMAIN PRESETS
PresetInputs == Presets \cup {"", "Hourly"}   \* message.preset of schedule:create

\* PRESETS is an object literal: a key it inherits from Object.prototype
\* ("constructor", "toString", ...) looks up to a function, which is truthy and
\* has no cron and no randomDelayMs property
InheritedKeys == {"constructor"}

\* the value of a cronExpression property that is undefined
NoCron == "undefined"

\* !presetConfig in createSchedule
InvalidPreset(preset) == preset \notin Presets \cup InheritedKeys

\* PRESETS[label]?.randomDelayMs ?? 0
maxDelay(label) == IF label \in Presets THEN PRESETS[label].randomDelayMs ELSE 0

\* the value of a lastRun property that is undefined
NoRun == [timestamp |-> NULL, exitCode |-> NULL]

\* A Schedule object as createSchedule builds it: lastRun is undefined
NewScheduleIn(id, preset, cwd) ==
  [id |-> id, cwd |-> cwd,
   cronExpression |-> IF preset \in Presets THEN PRESETS[preset].cron ELSE NoCron,
   presetLabel |-> preset,
   enabled |-> TRUE, lastRun |-> NoRun]

\* message.cwd of schedule:create
ScheduleCwds == {"/d1", "~", "~/proj"}

NewSchedule(id, preset) == NewScheduleIn(id, preset, "/d1")

\* the slot of a Schedule object this process does not hold
NoSchedule ==
  [id |-> NULL, cwd |-> "", cronExpression |-> NoCron, presetLabel |-> "", enabled |-> FALSE,
   lastRun |-> NoRun]

\* JSON.stringify of a Schedule: a property whose value is undefined is left out
Stringify(s) ==
  [id |-> s.id, cwd |-> s.cwd, presetLabel |-> s.presetLabel, enabled |-> s.enabled]
    @@ (IF s.cronExpression = NoCron THEN <<>> ELSE [cronExpression |-> s.cronExpression])
    @@ (IF s.lastRun = NoRun THEN <<>> ELSE [lastRun |-> s.lastRun])

\* JSON.parse of an entry of schedules.json: reading a property that is not
\* there gives undefined
Parse(j) ==
  [id |-> j.id, cwd |-> j.cwd,
   cronExpression |-> IF "cronExpression" \in DOMAIN j THEN j.cronExpression ELSE NoCron,
   presetLabel |-> j.presetLabel, enabled |-> j.enabled,
   lastRun |-> IF "lastRun" \in DOMAIN j THEN j.lastRun ELSE NoRun]

\* the dot-directory before the first start: no schedules.json, no runs
\* writable is whether writing schedules.json succeeds
NoFiles == [json |-> {}, dirs |-> {}, files |-> {}, writable |-> TRUE]

\* a new Scheduler before loadSchedules, on an empty dot-directory
SchedInit ==
  /\ now = 0
  /\ schedules = {}
  /\ sobjs = <<>>
  /\ cronJobs = {}
  /\ tasks = [i \in SchedIds |-> 0]
  /\ timers = {}
  /\ runs = <<>>
  /\ disk = NoFiles

\* ------------------------------------------------------------ PtySession
\* A string is a sequence of segments: units lo..hi of chunk n.
SegLen(seg) == seg.hi - seg.lo + 1

RECURSIVE HLen(_)
HLen(h) == IF h = <<>> THEN 0 ELSE SegLen(h[1]) + HLen(Tail(h))

\* String.prototype.slice(-k): the last k units.
RECURSIVE SliceFromEnd(_, _)
SliceFromEnd(h, k) ==
  IF h = <<>> \/ k <= 0 THEN <<>>
  ELSE LET last == h[Len(h)]
           front == SubSeq(h, 1, Len(h) - 1)
       IN IF SegLen(last) >= k
          THEN <<[last EXCEPT !.lo = last.hi - k + 1]>>
          ELSE SliceFromEnd(front, k - SegLen(last)) \o <<last>>

\* the trim keeping one unit less than MAX_HISTORY_SIZE
AppendHistoryOffByOne(h, n, size) ==
  LET h2 == Append(h, [n |-> n, lo |-> 1, hi |-> size])
  IN IF HLen(h2) > MAX_HISTORY_SIZE THEN SliceFromEnd(h2, MAX_HISTORY_SIZE - 1) ELSE h2

\* outputHistory += data, trimmed to MAX_HISTORY_SIZE
AppendHistory(h, n, size) ==
  LET h2 == Append(h, [n |-> n, lo |-> 1, hi |-> size])
  IN IF HLen(h2) > MAX_HISTORY_SIZE THEN SliceFromEnd(h2, MAX_HISTORY_SIZE) ELSE h2

getHistory(s) == objs[s].outputHistory

\* new PtySession(id, cwd, args) after a successful start(); stream is the
\* lengths of the chunks read so far, parsed the event parseOutput returned
\* for the last of them
NewSession(cwd, args, pid) ==
  [cwd |-> cwd, args |-> args, pty |-> TRUE, pid |-> pid, status |-> "running",
   outputHistory |-> <<>>, stream |-> <<>>, onOutput |-> <<>>, onExit |-> <<>>,
   exited |-> FALSE, lastActivityTime |-> now, input |-> 0, kills |-> 0,
   parsed |-> <<>>]

\* the getActivityStatus comparing with <=
getActivityStatusInclusive(o) ==
  IF o.status = "stopped" THEN "idle"
  ELSE IF (now - o.lastActivityTime) <= ACTIVITY_THRESHOLD_MS THEN "busy" ELSE "idle"

\* PtySession.getActivityStatus
getActivityStatus(o) ==
  IF o.status = "stopped" THEN "idle"
  ELSE IF (now - o.lastActivityTime) < ACTIVITY_THRESHOLD_MS THEN "busy" ELSE "idle"

\* PtySession.getInfo: the session record sent to clients
getInfo(o) == [cwd |-> o.cwd, status |-> o.status, activityStatus |-> getActivityStatus(o)]

\* the session:created event with its session record
Created(sid, hn, info) ==
  [t |-> "session:created", sid |-> sid, h |-> hn, pos |-> 0, data |-> <<>>,
   session |-> info]

\* EventEmitter.off
Off(ls, h) == SelectSeq(ls, LAMBDA x : x # h)

\* what parseOutput looks at in a chunk: the number of matches of
\* /(\d+)\.\s+([^\n]+)/g, whether the text includes '?', the tool names in it
\* in the order of their first occurrence, and whether it includes '@@' (hunk)
\* and '+' or '-' (sign)
Chunk(options, question, tools, hunk, sign) ==
  [options |-> options, question |-> question, tools |-> tools, hunk |-> hunk,
   sign |-> sign]

PlainChunk == Chunk(0, FALSE, <<>>, FALSE, FALSE)
ChunkKinds ==
  {Chunk(2, TRUE, <<"Read">>, FALSE, FALSE), Chunk(2, FALSE, <<"Read">>, FALSE, FALSE),
   Chunk(1, TRUE, <<>>, TRUE, TRUE), PlainChunk}

\* the chunks parseOutput is given
ParseChunks ==
  {Chunk(o.n, o.q, t, h, g) :
     o \in {[n |-> 2, q |-> TRUE], [n |-> 2, q |-> FALSE]},
     t \in {<<>>, <<"Read">>, <<"Grep">>, <<"Glob", "Bash">>},
     h \in BOOLEAN, g \in BOOLEAN}

\* clean.includes('Read') || clean.includes('Edit') || clean.includes('Write')
\* || clean.includes('Bash')
IncludesTool(ch) ==
  \E i \in DOMAIN ch.tools : ch.tools[i] \in {"Read", "Edit", "Write", "Bash"}

\* PtySession.parseOutput: the type of the one event it returns
parseOutput(ch) ==
  IF ch.options >= 2 /\ ch.question THEN "ask_user"
  ELSE IF IncludesTool(ch) THEN "tool_start"
  ELSE IF ch.hunk /\ ch.sign THEN "diff"
  ELSE "text"

\* the event parseOutput returns; toolName is the first match of
\* /(Read|Edit|Write|Bash|Glob|Grep)/, "" where there is no metadata.toolName
ParsedOutput(ch) ==
  [chunk |-> ch, type |-> parseOutput(ch),
   toolName |-> IF parseOutput(ch) = "tool_start" THEN ch.tools[1] ELSE ""]

\* cwd.split('/').pop() on the directories of this model
LastSplit(cwd) == IF cwd = "/d1" THEN "d1" ELSE IF cwd = "/d2" THEN "d2" ELSE ""

PreviewLength == 150

\* content.slice(0, 150) of a chunk of one segment
Preview(data) == <<[data[1] EXCEPT !.hi = Min(@, PreviewLength)]>>

\* the session:input_required event of an outputHandler
InputRequired(sid, hn, pos, cwd, data) ==
  [t |-> "session:input_required", sid |-> sid, h |-> hn, pos |-> pos, data |-> <<>>,
   sessionName |-> LastSplit(cwd), preview |-> Preview(data)]

\* one outputHandler closure: ws.send(raw), then the notification if the chunk
\* parsed to an ask_user event; both behind readyState === OPEN
OutputHandler(fr, l, sid, pos, data, type, cwd) ==
  LET sent == WsSend(fr, l.c, Text("live", sid, l.n, pos, data))
  IN IF type = "ask_user"
     THEN sendControl(sent, l.c, InputRequired(sid, l.n, pos, cwd, data))
     ELSE sent

\* emit('output'): the outputHandler closures in ls run in order
RECURSIVE EmitOutput(_, _, _, _, _, _, _)
EmitOutput(fr, ls, sid, pos, data, type, cwd) ==
  IF ls = <<>> THEN fr
  ELSE EmitOutput(OutputHandler(fr, ls[1], sid, pos, data, type, cwd),
                  Tail(ls), sid, pos, data, type, cwd)

\* emit('exit') calling every exitHandler twice
RECURSIVE EmitExitTwice(_, _, _, _)
EmitExitTwice(fr, ls, sid, pos) ==
  IF ls = <<>> THEN fr
  ELSE LET e == Ctl("session:exit", sid, ls[1].n, pos)
       IN EmitExitTwice(sendControl(sendControl(fr, ls[1].c, e), ls[1].c, e), Tail(ls), sid, pos)

\* emit('exit'): the exitHandler closures in ls run in order
RECURSIVE EmitExit(_, _, _, _)
EmitExit(fr, ls, sid, pos) ==
  IF ls = <<>> THEN fr
  ELSE EmitExit(sendControl(fr, ls[1].c, Ctl("session:exit", sid, ls[1].n, pos)),
                Tail(ls), sid, pos)

\* ------------------------------------------------------- process table
\* An entry of the operating system's process table
\* cwd is what lsof or /proc/<pid>/cwd yields ("" when neither does), user the
\* owner ps reports, zombie whether its state includes Z, env the value of
\* process.env.USER || process.env.USERNAME || '' in the process
ProcAs(exe, cwd, user, zombie, env) ==
  [alive |-> TRUE, exe |-> exe, cwd |-> cwd, user |-> user, zombie |-> zombie, env |-> env]

\* the user the server runs as
CurrentUser == "root"
Users == {CurrentUser, "nobody"}

Proc(exe, cwd) == ProcAs(exe, cwd, CurrentUser, FALSE, CurrentUser)
NoProc == [alive |-> FALSE, exe |-> "", cwd |-> "", user |-> "", zombie |-> FALSE, env |-> ""]

\* the PIDs fork may hand out: any PID no live process holds
FreePids == {p \in Pids : ~procs[p].alive}

\* the lowest of them
FirstFree == CHOOSE p \in FreePids : \A q \in FreePids : p <= q

\* --------------------------------------------------------- SessionManager
getSession(id) == IF id \in sessions THEN id ELSE NULL

NextId == Len(objs) + 1

\* PIDs of the sessions in the registry (getPid() is never null there)
ManagedPids == {objs[s].pid : s \in sessions}

\* ----------------------------------------------------------------- index
\* cleanupSessionHandlers: the session objects after it
CleanupObjs(c) ==
  LET sid == state[c].sessionId
  IN IF sid # NULL /\ getSession(sid) # NULL
     THEN [objs EXCEPT ![sid].onOutput = Off(@, state[c].outputHandler),
                       ![sid].onExit = Off(@, state[c].exitHandler)]
     ELSE objs

\* cleanupSessionHandlers: the client state after it
CleanupState(c) ==
  [state EXCEPT ![c].outputHandler = NoHandler, ![c].exitHandler = NoHandler]

\* the state after construction: the server listens, two connections are open
Init ==
  /\ state = [c \in Clients |-> [authenticated |-> FALSE, sessionId |-> NULL,
                                 outputHandler |-> NoHandler, exitHandler |-> NoHandler]]
  /\ ws = [c \in Clients |-> [readyState |-> "OPEN", isAuthenticated |-> FALSE]]
  /\ out = None
  /\ sessions = {}
  /\ objs = <<>>
  /\ procs = [p \in Pids |-> IF p = ServerPid THEN Proc("node", ProcessCwd) ELSE NoProc]
  /\ adopts = {}
  /\ signals = {}
  /\ nextHandler = 1
  /\ browser = [c \in Clients |-> NoPage]
  /\ SchedInit

\* the gate with session:destroy exempted as well
RequiresAuthSparesDestroy(type) == type \notin {"auth", "session:destroy"}

\* Auth required for all commands except 'auth'
RequiresAuth(type) == type # "auth"

\* handleControlMessage lets a message of this type from connection c through
Admitted(c, type) == RequiresAuth(type) => state[c].authenticated

\* handleControlMessage on a connection that is not authenticated
NotAuthenticated(c, type) ==
  /\ ws[c].readyState = "OPEN"
  /\ ~Admitted(c, type)
  /\ Sends(sendControl(None, c, ErrorEvent))
  /\ UNCHANGED <<state, ws, sessions, objs, procs, adopts, nextHandler>>
  /\ signals' = {}
  /\ UNCHANGED schedVars

\* case 'auth' with a failed attempt ending the authentication
AuthRevoking(c, token) ==
  /\ ws[c].readyState = "OPEN"
  /\ Admitted(c, "auth")
  /\ IF token # "" /\ validateToken(token)
     THEN /\ state' = [state EXCEPT ![c].authenticated = TRUE]
          /\ ws' = [ws EXCEPT ![c].isAuthenticated = TRUE]
          /\ Sends(sendControl(None, c, Ctl("auth:success", NULL, 0, 0)))
     ELSE /\ Sends(sendControl(None, c, Ctl("auth:failed", NULL, 0, 0)))
          /\ state' = [state EXCEPT ![c].authenticated = FALSE]
          /\ ws' = [ws EXCEPT ![c].isAuthenticated = FALSE]
  /\ UNCHANGED <<sessions, objs, procs, adopts, nextHandler>>
  /\ signals' = {}
  /\ UNCHANGED schedVars

\* case 'auth'
Auth(c, token) ==
  /\ ws[c].readyState = "OPEN"
  /\ Admitted(c, "auth")
  /\ IF token # "" /\ validateToken(token)
     THEN /\ state' = [state EXCEPT ![c].authenticated = TRUE]
          /\ ws' = [ws EXCEPT ![c].isAuthenticated = TRUE]
          /\ Sends(sendControl(None, c, Ctl("auth:success", NULL, 0, 0)))
     ELSE /\ Sends(sendControl(None, c, Ctl("auth:failed", NULL, 0, 0)))
          /\ UNCHANGED <<state, ws>>
  /\ UNCHANGED <<sessions, objs, procs, adopts, nextHandler>>
  /\ signals' = {}
  /\ UNCHANGED schedVars

\* fs.existsSync(cwd) and fs.statSync(cwd).isDirectory()
existsSync(cwd) == cwd \in Dirs \/ cwd = "/file"
isDirectory(cwd) == cwd \in Dirs

\* session.on('output', outputHandler); session.on('exit', exitHandler)
Subscribe(o, sid, h) ==
  [o EXCEPT ![sid].onOutput = Append(@, h), ![sid].onExit = Append(@, h)]

\* case 'session:create'; spawnOk is whether PtySession.start() succeeds
SessionCreateWithin(c, msgCwd, spawnOk, pid, limit) ==
  /\ ws[c].readyState = "OPEN"
  /\ Admitted(c, "session:create")
  /\ LET cwd == IF msgCwd = "" THEN ProcessCwd ELSE msgCwd
         id == NextId
         h == [c |-> c, sid |-> id, n |-> nextHandler, from |-> 0]
     IN IF ~existsSync(cwd) \/ ~isDirectory(cwd) \/ ~spawnOk
        THEN /\ Sends(sendControl(None, c, ErrorEvent))
             /\ objs' = CleanupObjs(c) /\ state' = CleanupState(c)
             /\ UNCHANGED <<sessions, procs, nextHandler>>
        ELSE /\ id \in SessionIds /\ pid \in FreePids /\ nextHandler <= limit
             /\ procs' = [procs EXCEPT ![pid] = Proc("claude", cwd)]
             /\ sessions' = sessions \cup {id}
             /\ objs' = Subscribe(Append(CleanupObjs(c), NewSession(cwd, <<>>, pid)), id, h)
             /\ state' = [state EXCEPT ![c].sessionId = id, ![c].outputHandler = h,
                                       ![c].exitHandler = h]
             /\ nextHandler' = nextHandler + 1
             /\ Sends(sendControl(None, c, Created(id, h.n, getInfo(NewSession(cwd, <<>>, pid)))))
  /\ UNCHANGED <<ws, adopts>>
  /\ signals' = {}
  /\ UNCHANGED schedVars

\* session:create while fewer than MaxHandlers closures have been created
SessionCreate(c, msgCwd, spawnOk, pid) ==
  SessionCreateWithin(c, msgCwd, spawnOk, pid, MaxHandlers)

\* case 'session:list'
SessionList(c) ==
  /\ ws[c].readyState = "OPEN"
  /\ Admitted(c, "session:list")
  /\ Sends(sendControl(None, c, Ctl("session:list", NULL, 0, 0)))
  /\ UNCHANGED <<state, ws, sessions, objs, procs, adopts, nextHandler>>
  /\ signals' = {}
  /\ UNCHANGED schedVars

\* session:attach replaying the history before it announces the attachment
AttachFramesHistoryFirst(c, sid, hn, hasCache) ==
  LET pos == Len(objs[sid].stream)
      history == getHistory(sid)
      fr1 == IF ~hasCache /\ history # <<>>
             THEN WsSend(None, c, Text("history", sid, hn, pos, history))
             ELSE None
  IN sendControl(fr1, c, Ctl("session:attached", sid, hn, pos))

\* session:attach replaying the history whatever hasCache says
AttachFramesIgnoresCache(c, sid, hn, hasCache) ==
  LET pos == Len(objs[sid].stream)
      fr1 == sendControl(None, c, Ctl("session:attached", sid, hn, pos))
      history == getHistory(sid)
  IN IF history # <<>> THEN WsSend(fr1, c, Text("history", sid, hn, pos, history)) ELSE fr1

\* the frames session:attach sends after subscribing
AttachFrames(c, sid, hn, hasCache) ==
  LET pos == Len(objs[sid].stream)
      fr1 == sendControl(None, c, Ctl("session:attached", sid, hn, pos))
      history == getHistory(sid)
  IN IF ~hasCache /\ history # <<>> /\ ws[c].readyState = "OPEN"
     THEN WsSend(fr1, c, Text("history", sid, hn, pos, history))
     ELSE fr1

\* case 'session:attach'
SessionAttachWithin(c, sessionId, hasCache, limit) ==
  /\ ws[c].readyState = "OPEN"
  /\ Admitted(c, "session:attach")
  /\ IF getSession(sessionId) = NULL
     THEN /\ Sends(sendControl(None, c, ErrorEvent))
          /\ UNCHANGED <<state, objs, nextHandler>>
     ELSE LET h == [c |-> c, sid |-> sessionId, n |-> nextHandler,
                    from |-> Len(objs[sessionId].stream)]
          IN /\ nextHandler <= limit
             /\ objs' = Subscribe(CleanupObjs(c), sessionId, h)
             /\ state' = [state EXCEPT ![c].sessionId = sessionId,
                                       ![c].outputHandler = h, ![c].exitHandler = h]
             /\ nextHandler' = nextHandler + 1
             /\ Sends(AttachFrames(c, sessionId, h.n, hasCache))
  /\ UNCHANGED <<ws, sessions, procs, adopts>>
  /\ signals' = {}
  /\ UNCHANGED schedVars

\* session:attach while fewer than MaxHandlers closures have been created
SessionAttach(c, sessionId, hasCache) ==
  SessionAttachWithin(c, sessionId, hasCache, MaxHandlers)

\* app.js attachSession(sessionId): the terminal of the current session is
\* saved in the cache, the terminal is cleared, the cached content of the new
\* session is written back, and session:attach is sent with hasCache = !!cached
attachSession(c, sessionId) ==
  /\ ws[c].readyState = "OPEN" /\ state[c].authenticated
  /\ browser[c].on /\ browser[c].target = NULL
  /\ LET b == browser[c]
         cache == IF b.currentSessionId # NULL
                  THEN [k \in DOMAIN b.sessionCache \cup {b.currentSessionId} |->
                          IF k = b.currentSessionId THEN b.terminal ELSE b.sessionCache[k]]
                  ELSE b.sessionCache
         cached == sessionId \in DOMAIN cache
     IN browser' = [browser EXCEPT ![c] =
          [b EXCEPT !.sessionCache = cache,
                    !.terminal = IF cached THEN cache[sessionId] ELSE {},
                    !.target = sessionId, !.hasCache = cached]]
  /\ out' = None
  /\ signals' = {}
  /\ UNCHANGED <<muxVars, schedVars>>

\* the server handles the session:attach the page of connection c has sent
AttachSent(c, limit) ==
  /\ browser[c].target # NULL
  /\ SessionAttachWithin(c, browser[c].target, browser[c].hasCache, limit)

\* case 'resize' answering a resize that PtySession.resize rejected
ResizeFramesReportError(c, hasDims, throws) ==
  IF getSession(state[c].sessionId) # NULL /\ hasDims /\ throws
  THEN sendControl(None, c, ErrorEvent) ELSE None

\* case 'resize': the frames it sends. hasDims is message.cols && message.rows,
\* throws is whether pty.resize throws (the catch block is empty)
ResizeFrames(c, hasDims, throws) == None

\* case 'resize': PtySession.resize changes nothing this model observes
Resize(c) ==
  /\ ws[c].readyState = "OPEN"
  /\ Admitted(c, "resize")
  /\ \E hasDims \in BOOLEAN, throws \in BOOLEAN : Sends(ResizeFrames(c, hasDims, throws))
  /\ UNCHANGED <<state, ws, sessions, objs, procs, adopts, nextHandler>>
  /\ signals' = {}
  /\ UNCHANGED schedVars

\* PtySession.stop calling pty.kill() without looking at this.pty
stopUnguarded(o, sid) ==
  [o EXCEPT ![sid].pty = FALSE, ![sid].status = "stopped", ![sid].kills = @ + 1]

\* PtySession.stop; kills counts the calls of pty.kill()
stop(o, sid) ==
  IF o[sid].pty
  THEN [o EXCEPT ![sid].pty = FALSE, ![sid].status = "stopped", ![sid].kills = @ + 1]
  ELSE o

\* PtySession.write; input counts the calls of pty.write(data)
write(o, sid) == IF o[sid].pty THEN [o EXCEPT ![sid].input = @ + 1] ELSE o

\* the text-frame handler forwarding to the first session of the registry
InputSessionFirst(c) ==
  IF sessions = {} THEN NULL ELSE CHOOSE s \in sessions : \A t \in sessions : s <= t

\* the session a text frame of connection c is meant for: state.sessionId
InputSession(c) == state[c].sessionId

\* ws.on('message') with isBinary false: raw terminal input
TextFrame(c) ==
  /\ ws[c].readyState = "OPEN"
  /\ LET sid == InputSession(c)
     IN IF state[c].authenticated /\ sid # NULL /\ getSession(sid) # NULL
        THEN /\ objs[sid].pty => objs[sid].input < MaxInputs
             /\ objs' = write(objs, sid)
        ELSE objs' = objs
  /\ Sends(None)
  /\ UNCHANGED <<state, ws, sessions, procs, adopts, nextHandler>>
  /\ signals' = {}
  /\ UNCHANGED schedVars

\* SessionManager.destroySession: the session objects after it
destroySession(o, sid) == IF sid \in sessions THEN stop(o, sid) ELSE o

\* case 'session:destroy'
SessionDestroy(c, sessionId) ==
  /\ ws[c].readyState = "OPEN"
  /\ Admitted(c, "session:destroy")
  /\ IF sessionId # NULL
     THEN /\ objs' = destroySession(objs, sessionId)
          /\ sessions' = sessions \ {sessionId}
          /\ Sends(sendControl(None, c, Ctl("session:destroyed", sessionId, 0, 0)))
     ELSE /\ Sends(None)
          /\ UNCHANGED <<objs, sessions>>
  /\ UNCHANGED <<state, ws, procs, adopts, nextHandler>>
  /\ signals' = {}
  /\ UNCHANGED schedVars

\* ws.on('close'): the session objects after it
CloseObjs(c) ==
  LET sid == state[c].sessionId
  IN IF sid # NULL /\ state[c].outputHandler # NoHandler /\ getSession(sid) # NULL
     THEN [objs EXCEPT ![sid].onOutput = Off(@, state[c].outputHandler),
                       ![sid].onExit = Off(@, state[c].exitHandler)]
     ELSE objs

\* ws.on('close')
WsClose(c) ==
  /\ ws[c].readyState = "OPEN"
  /\ ws' = [ws EXCEPT ![c].readyState = "CLOSED"]
  /\ objs' = CloseObjs(c)
  /\ Sends(None)
  /\ UNCHANGED <<state, sessions, procs, adopts, nextHandler>>
  /\ signals' = {}
  /\ UNCHANGED schedVars

RECURSIVE SumChunks(_)
SumChunks(o) == IF o = <<>> THEN 0 ELSE Len(o[1].stream) + SumChunks(Tail(o))

TotalChunks == SumChunks(objs)

\* this.pty.onData: the child of session sid wrote the chunk ch of `size` units
OnDataParsed(sid, size, ch) ==
  /\ sid \in DOMAIN objs /\ ~objs[sid].exited
  /\ TotalChunks < MaxChunks
  /\ LET n == Len(objs[sid].stream) + 1
         data == <<[n |-> n, lo |-> 1, hi |-> size]>>
     IN /\ objs' = [objs EXCEPT ![sid].lastActivityTime = now,
                                ![sid].stream = Append(@, size),
                                ![sid].outputHistory = AppendHistory(@, n, size),
                                ![sid].parsed = <<ParsedOutput(ch)>>]
        /\ Sends(EmitOutput(None, objs[sid].onOutput, sid, n, data,
                            parseOutput(ch), objs[sid].cwd))
  /\ UNCHANGED <<state, ws, sessions, procs, adopts, nextHandler>>
  /\ signals' = {}
  /\ UNCHANGED schedVars

\* this.pty.onData for a chunk of plain text
OnData(sid, size) == OnDataParsed(sid, size, PlainChunk)

\* this.pty.onExit: the child of session sid has terminated
OnExit(sid) ==
  /\ sid \in DOMAIN objs /\ ~objs[sid].exited
  /\ objs' = [objs EXCEPT ![sid].status = "stopped", ![sid].exited = TRUE]
  /\ procs' = [procs EXCEPT ![objs[sid].pid] = NoProc]
  /\ Sends(EmitExit(None, objs[sid].onExit, sid, Len(objs[sid].stream)))
  /\ UNCHANGED <<state, ws, sessions, adopts, nextHandler>>
  /\ signals' = {}
  /\ UNCHANGED schedVars

\* ------------------------------------------------------- ProcessDetector
\* isProcessRunning: process.kill(pid, 0) does not throw
isProcessRunning(pid) == pid \in Pids /\ procs[pid].alive

\* executable === 'claude' || (executable.endsWith('/claude') && !executable.includes('.app'))
isClaudeCLI(exe) == exe \in {"claude", "/usr/local/bin/claude"}

Exes == {"claude", "/usr/local/bin/claude", "/Applications/Claude.app/claude", "node"}

\* the processes detectClaudeProcesses(excludePids) keeps
Detected(excludePids) ==
  LET currentUser == procs[ServerPid].env
  IN {q \in Pids : /\ procs[q].alive
                   /\ (currentUser = "" \/ procs[q].user = currentUser)
                   /\ ~procs[q].zombie
                   /\ q \notin excludePids
                   /\ q # ServerPid
                   /\ isClaudeCLI(procs[q].exe)
                   /\ procs[q].cwd # ""}

\* detectClaudeProcesses(excludePids): the (pid, cwd) pairs of its result
detectClaudeProcesses(excludePids) ==
  {[pid |-> p, cwd |-> procs[p].cwd] : p \in Detected(excludePids)}

\* the children of PtySession objects that have not terminated
SessionPids == {objs[s].pid : s \in {x \in DOMAIN objs : ~objs[x].exited}}

\* a process outside the server starts
ExtSpawnAs(pid, exe, cwd, user, zombie) ==
  /\ pid \in FreePids
  /\ procs' = [procs EXCEPT ![pid] = ProcAs(exe, cwd, user, zombie, user)]
  /\ Sends(None)
  /\ UNCHANGED <<state, ws, sessions, objs, adopts, nextHandler>>
  /\ signals' = {}
  /\ UNCHANGED schedVars

\* a process of the server's user starts
ExtSpawn(pid, exe, cwd) == ExtSpawnAs(pid, exe, cwd, CurrentUser, FALSE)

\* a process outside the server terminates
ExtExit(pid) ==
  /\ pid \in Pids /\ procs[pid].alive
  /\ pid # ServerPid /\ pid \notin SessionPids
  /\ procs' = [procs EXCEPT ![pid] = NoProc]
  /\ Sends(None)
  /\ UNCHANGED <<state, ws, sessions, objs, adopts, nextHandler>>
  /\ signals' = {}
  /\ UNCHANGED schedVars

\* ------------------------------------------------------- session:adopt
\* process.kill(pid, sig) by the adoption call a; managed is the PIDs of the live
\* children of the sessions in the registry at that moment
Sig(a, sig) ==
  [pid |-> a.pid, cwd |-> a.cwd, sig |-> sig, snapshot |-> a.discovered,
   managed |-> {objs[s].pid : s \in {x \in sessions : ~objs[x].exited}}]

\* case 'session:adopt', up to the first await of adoptExternalSession; a
\* connection sends it when its previous adoption has settled
SessionAdopt(c, pid, cwd) ==
  /\ ws[c].readyState = "OPEN"
  /\ \A a \in adopts : a.c # c
  /\ Admitted(c, "session:adopt")
  /\ IF pid = 0 \/ cwd = ""
     THEN /\ Sends(sendControl(None, c, ErrorEvent))
          /\ UNCHANGED <<state, objs, adopts>>
     ELSE /\ objs' = CleanupObjs(c)
          /\ state' = CleanupState(c)
          /\ IF pid <= 0 \/ ~isProcessRunning(pid)
             THEN /\ Sends(sendControl(None, c, ErrorEvent))
                  /\ UNCHANGED adopts
             ELSE /\ adopts' = adopts \cup {[c |-> c, pid |-> pid, cwd |-> cwd, pc |-> "ps",
                                            managedPids |-> ManagedPids, discovered |-> {}]}
                  /\ Sends(None)
  /\ UNCHANGED <<ws, sessions, procs, nextHandler>>
  /\ signals' = {}
  /\ UNCHANGED schedVars

\* discoverExternalSessions resumes: ps has run (psOk) or failed
AdoptPs(a, psOk) ==
  /\ a \in adopts /\ a.pc = "ps"
  /\ adopts' = (adopts \ {a}) \cup
       {[a EXCEPT !.pc = "check",
                  !.discovered = IF psOk THEN detectClaudeProcesses(a.managedPids) ELSE {}]}
  /\ Sends(None)
  /\ UNCHANGED <<state, ws, sessions, objs, procs, nextHandler>>
  /\ signals' = {}
  /\ UNCHANGED schedVars

\* the validation comparing the PID only
isValidPidOnly(a) == \E p \in a.discovered : p.pid = a.pid

\* discovered.some(p => p.pid === pid && p.cwd === cwd)
isValid(a) == [pid |-> a.pid, cwd |-> a.cwd] \in a.discovered

\* adoptExternalSession resumes with the snapshot, up to killProcess's first await
AdoptCheck(a) ==
  /\ a \in adopts /\ a.pc = "check"
  /\ IF ~isValid(a)
     THEN /\ Sends(sendControl(None, a.c, ErrorEvent))
          /\ adopts' = adopts \ {a}
          /\ signals' = {}
     ELSE /\ adopts' = (adopts \ {a}) \cup
                 {[a EXCEPT !.pc = IF isProcessRunning(a.pid) THEN "poll" ELSE "wait"]}
          /\ signals' = IF isProcessRunning(a.pid) THEN {Sig(a, "SIGTERM")} ELSE {}
          /\ Sends(None)
  /\ UNCHANGED <<state, ws, sessions, objs, procs, nextHandler>>
  /\ UNCHANGED schedVars

\* killProcess leaves its polling loop: the process is gone, or the timeout has
\* elapsed and it gets SIGKILL
AdoptPoll(a) ==
  /\ a \in adopts /\ a.pc = "poll"
  /\ adopts' = (adopts \ {a}) \cup {[a EXCEPT !.pc = "wait"]}
  /\ signals' = IF isProcessRunning(a.pid) THEN {Sig(a, "SIGKILL")} ELSE {}
  /\ Sends(None)
  /\ UNCHANGED <<state, ws, sessions, objs, procs, nextHandler>>
  /\ UNCHANGED schedVars

\* adoptExternalSession after its 150 ms wait, and the .then / .catch of the handler
AdoptFinish(a, spawnOk, pid) ==
  /\ a \in adopts /\ a.pc = "wait"
  /\ adopts' = adopts \ {a}
  /\ LET id == NextId
         h == [c |-> a.c, sid |-> id, n |-> nextHandler, from |-> 0]
     IN IF isProcessRunning(a.pid) \/ ~spawnOk
        THEN /\ Sends(sendControl(None, a.c, ErrorEvent))
             /\ UNCHANGED <<state, sessions, objs, procs, nextHandler>>
        ELSE /\ id \in SessionIds /\ pid \in FreePids /\ nextHandler <= MaxHandlers
             /\ procs' = [procs EXCEPT ![pid] = Proc("claude", a.cwd)]
             /\ sessions' = sessions \cup {id}
             /\ objs' = Subscribe(Append(objs, NewSession(a.cwd, <<"--continue">>, pid)), id, h)
             /\ state' = [state EXCEPT ![a.c].sessionId = id, ![a.c].outputHandler = h,
                                       ![a.c].exitHandler = h]
             /\ nextHandler' = nextHandler + 1
             /\ Sends(sendControl(None, a.c,
                                   Created(id, h.n, getInfo(NewSession(a.cwd, <<"--continue">>, pid)))))
  /\ UNCHANGED ws
  /\ signals' = {}
  /\ UNCHANGED schedVars

\* -------------------------------------------------------- Scheduler (cont.)
\* broadcastToAll without the isAuthenticated test
broadcastToAllOpen(fr, frame) ==
  [c \in Clients |-> IF ws[c].readyState = "OPEN" THEN Append(fr[c], frame) ELSE fr[c]]

\* broadcastToAll: wss.clients.forEach, OPEN and isAuthenticated
broadcastToAll(fr, frame) ==
  [c \in Clients |->
     IF ws[c].readyState = "OPEN" /\ ws[c].isAuthenticated THEN Append(fr[c], frame) ELSE fr[c]]

\* the cronJobs map and node-cron's running tasks, as one value
Cron == [jobs |-> cronJobs, tasks |-> tasks]
SetCron(cr) == cronJobs' = cr.jobs /\ tasks' = cr.tasks

\* unregisterCronJob: job.stop() and cronJobs.delete(id)
unregisterCronJob(cr, id) ==
  IF id \in cr.jobs
  THEN [jobs |-> cr.jobs \ {id}, tasks |-> [cr.tasks EXCEPT ![id] = @ - 1]]
  ELSE cr

\* registerCronJob without the removal of the existing job
registerCronJobKeepsOld(cr, id) ==
  [jobs |-> cr.jobs \cup {id}, tasks |-> [cr.tasks EXCEPT ![id] = @ + 1]]

\* registerCronJob: remove the existing job if any, cron.schedule, cronJobs.set
registerCronJob(cr, id) ==
  LET u == unregisterCronJob(cr, id)
  IN [jobs |-> u.jobs \cup {id}, tasks |-> [u.tasks EXCEPT ![id] = @ + 1]]

\* fs.writeFileSync(schedulesFile, ...) inside saveSchedules' try block: a
\* failure is caught and logged there, and the file keeps its content
writeFileSync(d, content) == IF d.writable THEN [d EXCEPT !.json = content] ELSE d

\* saveSchedules writing the enabled schedules only
saveSchedulesEnabledOnly(S, O) == {Stringify(O[i]) : i \in {x \in S : O[x].enabled}}

\* saveSchedules: the content of schedules.json for the map S of the objects O
saveSchedules(S, O) == {Stringify(O[i]) : i \in S}

\* crypto.randomBytes(4).toString('hex'): an id no schedule has had
NextScheduleId == Len(sobjs) + 1

\* the log file of run n is written to now, if it is still there
Touch(files, n) == {IF f.run = n THEN [f EXCEPT !.mtime = now] ELSE f : f \in files}

\* fs.rmSync(runs/<id>, {recursive, force})
rmSync(d, id) == [d EXCEPT !.dirs = @ \ {id}, !.files = {f \in @ : f.sid # id}]

\* the footer lines "# Exit code: <exitCode>" and "# Duration: <durationMs>ms"
Footer(exitCode, durationMs) == [exitCode |-> exitCode, durationMs |-> durationMs]

\* executeSchedule(schedule); found is whether findClaudeBinary finds the binary.
\* log is the writes made to the log stream, in order; footer holds what the
\* footers written say; started is startTime.
executeSchedule(id, found) ==
  /\ Len(runs) < MaxRuns
  /\ runs' = Append(runs,
       [sid |-> id, spawned |-> found, alive |-> TRUE, logEnded |-> FALSE,
        log |-> IF found THEN <<"header">> ELSE <<"header", "error", "footer">>,
        ended |-> ~found, evs |-> <<>>, fin |-> 0, started |-> now,
        cwd |-> sobjs[id].cwd,
        footer |-> IF found THEN <<>> ELSE <<Footer(1, 0)>>])
  /\ disk' = [disk EXCEPT !.dirs = @ \cup {id},
                          !.files = @ \cup {[sid |-> id, run |-> Len(runs) + 1, mtime |-> now]}]

\* the schedule:updated event of a deletion
Deleted(id) ==
  [t |-> "schedule:updated", sid |-> NULL, h |-> 0, pos |-> 0, data |-> <<>>, deleted |-> id]

\* !message.name || !message.prompt || !message.cwd || !message.preset;
\* complete is whether name, prompt and cwd are all there
MissingFields(complete, preset) == ~complete \/ preset = ""

\* case 'schedule:create'. createSchedule throws at once for a preset without
\* a truthy PRESETS[preset]; for an inherited key it stores the schedule and
\* then cron.schedule throws on the undefined cronExpression, before cronJobs.set
\* and saveSchedules; the handler answers either throw with one error event
ScheduleCreateIn(c, complete, preset, cwd) ==
  /\ ws[c].readyState = "OPEN"
  /\ Admitted(c, "schedule:create")
  /\ IF MissingFields(complete, preset) \/ InvalidPreset(preset)
     THEN /\ Sends(sendControl(None, c, ErrorEvent))
          /\ UNCHANGED <<schedules, sobjs, cronJobs, tasks, disk>>
     ELSE LET id == NextScheduleId
          IN /\ id \in SchedIds
             /\ sobjs' = Append(sobjs, NewScheduleIn(id, preset, cwd))
             /\ schedules' = schedules \cup {id}
             /\ IF preset \in Presets
                THEN /\ SetCron(registerCronJob(Cron, id))
                     /\ disk' = writeFileSync(disk, saveSchedules(schedules', sobjs'))
                     /\ Sends(broadcastToAll(None, Ctl("schedule:updated", id, 0, 0)))
                ELSE /\ UNCHANGED <<cronJobs, tasks, disk>>
                     /\ Sends(sendControl(None, c, ErrorEvent))
  /\ UNCHANGED <<muxVars, now, timers, runs>>
  /\ signals' = {}

\* schedule:create with a working directory that exists
ScheduleCreate(c, complete, preset) == ScheduleCreateIn(c, complete, preset, "/d1")

\* case 'schedule:update'; hasEnabled is whether message.enabled is a boolean
ScheduleUpdate(c, scheduleId, hasEnabled, enabled) ==
  /\ ws[c].readyState = "OPEN"
  /\ Admitted(c, "schedule:update")
  /\ IF scheduleId = NULL \/ scheduleId \notin schedules
     THEN /\ Sends(sendControl(None, c, ErrorEvent))
          /\ UNCHANGED <<sobjs, cronJobs, tasks, disk>>
     ELSE /\ sobjs' = IF hasEnabled THEN [sobjs EXCEPT ![scheduleId].enabled = enabled]
                      ELSE sobjs
          /\ IF hasEnabled /\ enabled /\ sobjs[scheduleId].cronExpression = NoCron
             THEN \* cron.schedule throws on the undefined cronExpression
                  /\ SetCron(unregisterCronJob(Cron, scheduleId))
                  /\ UNCHANGED disk
                  /\ Sends(sendControl(None, c, ErrorEvent))
             ELSE /\ SetCron(IF ~hasEnabled THEN Cron
                             ELSE IF enabled THEN registerCronJob(Cron, scheduleId)
                             ELSE unregisterCronJob(Cron, scheduleId))
                  /\ disk' = writeFileSync(disk, saveSchedules(schedules, sobjs'))
                  /\ Sends(broadcastToAll(None, Ctl("schedule:updated", scheduleId, 0, 0)))
  /\ UNCHANGED <<muxVars, now, schedules, timers, runs>>
  /\ signals' = {}

\* case 'schedule:delete'
ScheduleDelete(c, scheduleId) ==
  /\ ws[c].readyState = "OPEN"
  /\ Admitted(c, "schedule:delete")
  /\ IF scheduleId = NULL
     THEN /\ Sends(sendControl(None, c, ErrorEvent))
          /\ UNCHANGED <<schedules, cronJobs, tasks, disk>>
     ELSE /\ SetCron(unregisterCronJob(Cron, scheduleId))
          /\ schedules' = schedules \ {scheduleId}
          /\ disk' = rmSync(writeFileSync(disk, saveSchedules(schedules', sobjs)), scheduleId)
          /\ Sends(broadcastToAll(None, Deleted(scheduleId)))
  /\ UNCHANGED <<muxVars, now, sobjs, timers, runs>>
  /\ signals' = {}

\* Scheduler.triggerSchedule(id) can run: the schedule exists (it throws otherwise)
triggerSchedule(id) == id \in schedules

\* the reply to schedule:trigger sent to every authenticated connection
TriggerFramesBroadcast(c, scheduleId) ==
  broadcastToAll(None, Ctl("schedule:triggered", scheduleId, 0, 0))

\* the reply to schedule:trigger
TriggerFrames(c, scheduleId) ==
  sendControl(None, c, Ctl("schedule:triggered", scheduleId, 0, 0))

\* case 'schedule:trigger'
ScheduleTrigger(c, scheduleId, found) ==
  /\ ws[c].readyState = "OPEN"
  /\ Admitted(c, "schedule:trigger")
  /\ IF scheduleId = NULL \/ ~triggerSchedule(scheduleId)
     THEN /\ Sends(sendControl(None, c, ErrorEvent))
          /\ UNCHANGED <<runs, disk>>
     ELSE /\ executeSchedule(scheduleId, found)
          /\ Sends(TriggerFrames(c, scheduleId))
  /\ UNCHANGED <<muxVars, now, schedules, sobjs, cronJobs, tasks, timers>>
  /\ signals' = {}

\* a running cron task of schedule id fires: the callback of cron.schedule
CronFire(id, found) ==
  /\ tasks[id] > 0
  /\ id \notin timers
  /\ IF maxDelay(sobjs[id].presetLabel) > 0
     THEN /\ timers' = timers \cup {id}
          /\ UNCHANGED <<runs, disk>>
     ELSE /\ executeSchedule(id, found)
          /\ UNCHANGED timers
  /\ Sends(None)
  /\ UNCHANGED <<muxVars, now, schedules, sobjs, cronJobs, tasks>>
  /\ signals' = {}

\* the random delay of a cron firing is over: the callback of setTimeout
TimerFire(id, found) ==
  /\ id \in timers
  /\ timers' = timers \ {id}
  /\ executeSchedule(id, found)
  /\ Sends(None)
  /\ UNCHANGED <<muxVars, now, schedules, sobjs, cronJobs, tasks>>
  /\ signals' = {}

\* finalizeLog without its logEnded guard
finalizeLogUnguarded(r, exitCode) ==
  [r EXCEPT !.logEnded = TRUE, !.log = Append(@, "footer"), !.ended = TRUE, !.fin = @ + 1,
            !.footer = Append(@, Footer(exitCode, now - r.started))]

\* finalizeLog, on the run's own variables: the footer, logStream.end()
finalizeLog(r, exitCode) ==
  IF r.logEnded THEN r
  ELSE [r EXCEPT !.logEnded = TRUE, !.log = Append(@, "footer"), !.ended = TRUE,
                 !.fin = @ + 1,
                 !.footer = Append(@, Footer(exitCode, now - r.started))]

\* the handlers of the child of run n: 'data' of stdout or stderr, 'close' with
\* an exit code, 'error'. "footerlike" is a 'data' event whose bytes include
\* the lines "# Exit code: 7" and "# Duration: 9ms"
RunEvent(n, ev, code) ==
  /\ n \in DOMAIN runs
  /\ runs[n].spawned /\ runs[n].alive
  /\ Len(runs[n].evs) < MaxEvents
  /\ LET r == [runs[n] EXCEPT !.evs = Append(@, ev)]
         w == IF ev \in {"data", "footerlike", "error"} /\ ~r.logEnded
              THEN [r EXCEPT !.log = Append(@, ev)] ELSE r
         f == IF ev \in {"data", "footerlike"} THEN w
              ELSE finalizeLog(w, IF ev = "close" THEN code ELSE 1)
         id == r.sid
     IN /\ runs' = [runs EXCEPT ![n] = f]
        /\ IF f.fin > r.fin
           THEN /\ sobjs' = [sobjs EXCEPT ![id].lastRun =
                                [timestamp |-> n, exitCode |-> IF ev = "close" THEN code ELSE 1]]
                /\ disk' = [writeFileSync(disk, saveSchedules(schedules, sobjs'))
                             EXCEPT !.files = Touch(@, n)]
                /\ Sends(broadcastToAll(None, Ctl("schedule:run_complete", id, 0, n)))
           ELSE /\ disk' = IF f.log # r.log THEN [disk EXCEPT !.files = Touch(@, n)] ELSE disk
                /\ Sends(None)
                /\ UNCHANGED sobjs
  /\ UNCHANGED <<muxVars, now, schedules, cronJobs, tasks, timers>>
  /\ signals' = {}

\* what a 'data' chunk that imitates a footer says
Imitation == Footer(7, 9)

\* the texts in the log of run r that match /# Exit code: (-?\d+)/ and
\* /# Duration: (\d+)ms/, in file order: those of the imitating output, then
\* those of the footers
RECURSIVE Matches(_, _)
Matches(log, footer) ==
  IF log = <<>> THEN <<>>
  ELSE IF log[1] = "footerlike" THEN <<Imitation>> \o Matches(Tail(log), footer)
  ELSE IF log[1] = "footer" THEN <<footer[1]>> \o Matches(Tail(log), Tail(footer))
  ELSE Matches(Tail(log), footer)

\* listRuns on one log file: content.match returns the first match of each
\* pattern in the whole file; exitCode <<>> is null
RunLog(f) ==
  LET m == Matches(runs[f.run].log, runs[f.run].footer)
  IN [scheduleId |-> f.sid, timestamp |-> f.run,
      exitCode |-> IF m = <<>> THEN <<>> ELSE <<m[1].exitCode>>,
      durationMs |-> IF m = <<>> THEN 0 ELSE m[1].durationMs]

\* Scheduler.listRuns: the logs of the schedule's directory, newest first
RECURSIVE SortedRuns(_)
SortedRuns(fs) ==
  IF fs = {} THEN <<>>
  ELSE LET f == CHOOSE x \in fs : \A y \in fs : x.run >= y.run
       IN <<RunLog(f)>> \o SortedRuns(fs \ {f})

listRuns(scheduleId) ==
  IF scheduleId \notin disk.dirs THEN <<>>
  ELSE SortedRuns({f \in disk.files : f.sid = scheduleId})

\* cleanupOldRuns giving the cutoff instant itself away
cleanupOldRunsInclusive(d) ==
  LET cutoff == now - RetentionMs
      kept == {f \in d.files : ~(f.mtime <= cutoff)}
  IN [d EXCEPT !.files = kept, !.dirs = {i \in @ : \E f \in kept : f.sid = i}]

\* cleanupOldRuns: unlink the log files older than the cutoff, rmdir the
\* directories left empty
cleanupOldRuns(d) ==
  LET cutoff == now - RetentionMs
      kept == {f \in d.files : ~(f.mtime < cutoff)}
  IN [d EXCEPT !.files = kept, !.dirs = {i \in @ : \E f \in kept : f.sid = i}]

\* the hourly setInterval of loadSchedules
CleanupSweep ==
  /\ disk' = cleanupOldRuns(disk)
  /\ Sends(None)
  /\ UNCHANGED <<muxVars, now, schedules, sobjs, cronJobs, tasks, timers, runs>>
  /\ signals' = {}

\* loadSchedules' loop over the entries of schedules.json, lowest id first
RECURSIVE LoadCron(_, _)
LoadCron(entries, cr) ==
  IF entries = {} THEN cr
  ELSE LET j == CHOOSE x \in entries : \A y \in entries : x.id <= y.id
       IN LoadCron(entries \ {j}, IF j.enabled THEN registerCronJob(cr, j.id) ELSE cr)

\* the enabled entries of schedules.json on which cron.schedule throws: they
\* have no cronExpression
Throwing(entries) == {j \in entries : j.enabled /\ "cronExpression" \notin DOMAIN j}

\* the entries loadSchedules puts in the map before its try block is left: all
\* of them, or those up to the first on which registerCronJob throws
Reached(entries) == {j \in entries : \A k \in Throwing(entries) : j.id <= k.id}

\* the entry of schedules.json with this id, parsed
Loaded(id) == Parse(CHOOSE j \in disk.json : j.id = id)

\* the server stops and is started again: every object of the old process is
\* gone, new connections are accepted, loadSchedules reads schedules.json and
\* runs the first sweep
Restart ==
  /\ schedules' = {j.id : j \in Reached(disk.json)}
  /\ sobjs' = [i \in DOMAIN sobjs |-> IF i \in schedules' THEN Loaded(i) ELSE NoSchedule]
  /\ SetCron(LoadCron(Reached(disk.json) \ Throwing(disk.json),
                      [jobs |-> {}, tasks |-> [i \in SchedIds |-> 0]]))
  /\ timers' = {}
  /\ runs' = [n \in DOMAIN runs |-> [runs[n] EXCEPT !.alive = FALSE]]
  /\ disk' = cleanupOldRuns(disk)
  /\ state' = [c \in Clients |-> [authenticated |-> FALSE, sessionId |-> NULL,
                                  outputHandler |-> NoHandler, exitHandler |-> NoHandler]]
  /\ ws' = [c \in Clients |-> [readyState |-> "OPEN", isAuthenticated |-> FALSE]]
  /\ sessions' = {} /\ objs' = <<>> /\ adopts' = {} /\ nextHandler' = 1
  /\ procs' = [p \in Pids |-> IF p = ServerPid THEN Proc("node", ProcessCwd) ELSE NoProc]
  /\ Sends(None)
  /\ UNCHANGED now
  /\ signals' = {}

\* the 5 s setInterval, from its await to its end: session:status to every OPEN
\* connection whose isAuthenticated is set
StatusBroadcast ==
  /\ out' = [c \in Clients |->
               IF ws[c].readyState = "OPEN" /\ ws[c].isAuthenticated
               THEN <<Ctl("session:status", NULL, 0, 0)>> ELSE <<>>]
  /\ UNCHANGED <<muxVars, schedVars, browser>>
  /\ signals' = {}

\* time passes until the instant t
Tick(t) ==
  /\ t > now
  /\ now' = t
  /\ Sends(None)
  /\ UNCHANGED <<muxVars, schedules, sobjs, cronJobs, tasks, timers, runs, disk>>
  /\ signals' = {}

\* the dot-directory stops or starts accepting writes of schedules.json (the
\* volume fills up, permissions change)
FsFault(ok) ==
  /\ disk.writable # ok
  /\ disk' = [disk EXCEPT !.writable = ok]
  /\ Sends(None)
  /\ UNCHANGED <<muxVars, now, schedules, sobjs, cronJobs, tasks, timers, runs>>
  /\ signals' = {}

\* ----------------------------------------------------------- specifications
\* every handler, with every input
Next ==
  \/ \E c \in Clients, type \in CommandTypes : NotAuthenticated(c, type)
  \/ \E c \in Clients, token \in Tokens : Auth(c, token)
  \/ \E c \in Clients : SessionList(c)
  \/ \E c \in Clients : Resize(c)
  \/ \E c \in Clients, cwd \in CwdInputs, ok \in BOOLEAN, pid \in Pids : SessionCreate(c, cwd, ok, pid)
  \/ \E c \in Clients, sid \in SessionIds, hasCache \in BOOLEAN : SessionAttach(c, sid, hasCache)
  \/ \E c \in Clients, sid \in SessionIds \cup {NULL} : SessionDestroy(c, sid)
  \/ \E c \in Clients : WsClose(c)
  \/ \E sid \in SessionIds, size \in ChunkSizes : OnData(sid, size)
  \/ \E sid \in SessionIds : OnExit(sid)
  \/ \E pid \in Pids, exe \in Exes, cwd \in Dirs : ExtSpawn(pid, exe, cwd)
  \/ \E pid \in Pids : ExtExit(pid)
  \/ \E c \in Clients, pid \in {-1, 0} \cup Pids, cwd \in Dirs \cup {""} : SessionAdopt(c, pid, cwd)
  \/ \E a \in adopts, psOk \in BOOLEAN : AdoptPs(a, psOk)
  \/ \E a \in adopts : AdoptCheck(a)
  \/ \E a \in adopts : AdoptPoll(a)
  \/ \E a \in adopts, ok \in BOOLEAN, pid \in Pids : AdoptFinish(a, ok, pid)
  \/ \E c \in Clients, complete \in BOOLEAN, preset \in PresetInputs :
       ScheduleCreate(c, complete, preset)
  \/ \E c \in Clients, id \in SchedIds \cup {NULL}, hasEnabled \in BOOLEAN, enabled \in BOOLEAN :
       ScheduleUpdate(c, id, hasEnabled, enabled)
  \/ \E c \in Clients, id \in SchedIds \cup {NULL} : ScheduleDelete(c, id)
  \/ \E c \in Clients, id \in SchedIds \cup {NULL}, found \in BOOLEAN :
       ScheduleTrigger(c, id, found)
  \/ \E id \in SchedIds, found \in BOOLEAN : CronFire(id, found)
  \/ \E id \in SchedIds, found \in BOOLEAN : TimerFire(id, found)
  \/ \E n \in 1..MaxRuns, ev \in {"data", "close", "error"}, code \in {0, 1} :
       RunEvent(n, ev, code)
  \/ CleanupSweep
  \/ StatusBroadcast
  \/ Restart
  \/ \E t \in {1, ACTIVITY_THRESHOLD_MS, RetentionMs, RetentionMs + 1} : Tick(t)

Spec == Init /\ [][Next]_vars

\* Both connections have authenticated.
InitMux ==
  /\ state = [c \in Clients |-> [authenticated |-> TRUE, sessionId |-> NULL,
                                 outputHandler |-> NoHandler, exitHandler |-> NoHandler]]
  /\ ws = [c \in Clients |-> [readyState |-> "OPEN", isAuthenticated |-> TRUE]]
  /\ out = None
  /\ sessions = {}
  /\ objs = <<>>
  /\ procs = [p \in Pids |-> IF p = ServerPid THEN Proc("node", ProcessCwd) ELSE NoProc]
  /\ adopts = {}
  /\ signals = {}
  /\ nextHandler = 1
  /\ browser = [c \in Clients |-> NoPage]
  /\ SchedInit

\* the session multiplexer: create, attach, destroy, close, child output and
\* child exit; fork hands out the lowest free PID
NextMux ==
  \/ \E c \in Clients, cwd \in CwdInputs, ok \in BOOLEAN :
       FreePids # {} /\ SessionCreate(c, cwd, ok, FirstFree)
  \/ \E c \in Clients, sid \in SessionIds, hasCache \in BOOLEAN : SessionAttach(c, sid, hasCache)
  \/ \E c \in Clients, sid \in SessionIds \cup {NULL} : SessionDestroy(c, sid)
  \/ \E c \in Clients : WsClose(c)
  \/ \E sid \in SessionIds : OnData(sid, 70000)
  \/ \E sid \in SessionIds : OnExit(sid)

SpecMux == InitMux /\ [][NextMux]_vars

\* authentication in front of the session multiplexer
NextAuth ==
  \/ \E c \in Clients, type \in CommandTypes : NotAuthenticated(c, type)
  \/ \E c \in Clients, token \in Tokens : Auth(c, token)
  \/ \E c \in Clients : SessionList(c)
  \/ \E c \in Clients : Resize(c)
  \/ NextMux

SpecAuth == Init /\ [][NextAuth]_vars

\* adoption by connection 2 against session:create and session:destroy by
\* connection 1 and the processes outside
NextAdopt ==
  \/ \E pid \in Pids : SessionCreate(1, "", TRUE, pid)
  \/ \E sid \in SessionIds : SessionDestroy(1, sid)
  \/ \E sid \in SessionIds : OnExit(sid)
  \/ \E pid \in Pids, exe \in {"claude", "node"} : ExtSpawn(pid, exe, "/d1")
  \/ \E pid \in Pids : ExtExit(pid)
  \/ \E pid \in {-1, 0} \cup Pids, cwd \in Dirs \cup {""} : SessionAdopt(2, pid, cwd)
  \/ \E a \in adopts, psOk \in BOOLEAN : AdoptPs(a, psOk)
  \/ \E a \in adopts : AdoptCheck(a)
  \/ \E a \in adopts : AdoptPoll(a)
  \/ \E a \in adopts, ok \in BOOLEAN, pid \in Pids : AdoptFinish(a, ok, pid)

SpecAdopt == InitMux /\ [][NextAdopt]_vars

\* The server was started with USER or USERNAME in its environment, or with neither.
InitDetect ==
  /\ state = [c \in Clients |-> [authenticated |-> TRUE, sessionId |-> NULL,
                                 outputHandler |-> NoHandler, exitHandler |-> NoHandler]]
  /\ ws = [c \in Clients |-> [readyState |-> "OPEN", isAuthenticated |-> TRUE]]
  /\ out = None
  /\ sessions = {}
  /\ objs = <<>>
  /\ \E env \in {CurrentUser, ""} :
       procs = [p \in Pids |-> IF p = ServerPid
                               THEN ProcAs("node", ProcessCwd, CurrentUser, FALSE, env)
                               ELSE NoProc]
  /\ adopts = {}
  /\ signals = {}
  /\ nextHandler = 1
  /\ browser = [c \in Clients |-> NoPage]
  /\ SchedInit

\* detection: processes of either user start and terminate, running or zombie,
\* while connection 1 creates sessions and connection 2 adopts
NextDetect ==
  \/ FreePids # {} /\ SessionCreate(1, "", TRUE, FirstFree)
  \/ \E pid \in Pids, exe \in {"claude", "/Applications/Claude.app/claude"},
        cwd \in {"/d1", ""}, user \in Users, zombie \in BOOLEAN :
       ExtSpawnAs(pid, exe, cwd, user, zombie)
  \/ \E pid \in Pids : ExtExit(pid)
  \/ \E pid \in Pids : SessionAdopt(2, pid, "/d1")
  \/ \E a \in adopts, psOk \in BOOLEAN : AdoptPs(a, psOk)
  \/ \E a \in adopts : AdoptCheck(a)
  \/ \E a \in adopts : AdoptPoll(a)
  \/ \E a \in adopts, pid \in Pids : AdoptFinish(a, TRUE, pid)

SpecDetect == InitDetect /\ [][NextDetect]_vars

\* the history buffer: one connection creates sessions, their children write chunks
\* of either length, the other connection attaches
NextHistory ==
  \/ FreePids # {} /\ SessionCreate(1, "", TRUE, FirstFree)
  \/ \E sid \in SessionIds, size \in ChunkSizes : OnData(sid, size)
  \/ \E sid \in SessionIds, hasCache \in BOOLEAN : SessionAttach(2, sid, hasCache)
  \/ \E sid \in SessionIds : OnExit(sid)

SpecHistory == InitMux /\ [][NextHistory]_vars

\* the runs of schedules: connection 1 creates schedules, switches them on and
\* off and triggers them, and the children of the runs emit data, close and
\* error in any order
NextRuns ==
  \/ ScheduleCreate(1, TRUE, "Daily (morning)")
  \/ \E id \in SchedIds, enabled \in BOOLEAN : ScheduleUpdate(1, id, TRUE, enabled)
  \/ \E id \in SchedIds \cup {NULL}, found \in BOOLEAN : ScheduleTrigger(1, id, found)
  \/ \E n \in 1..MaxRuns, ev \in {"data", "close", "error"} : RunEvent(n, ev, 0)

SpecRuns == InitMux /\ [][NextRuns]_vars

\* the life of schedules: create, update and delete by connection 1, cron
\* firings and their random delays, runs and their completion, restarts of the
\* server (after which connection 1 authenticates again)
NextCron ==
  \/ Auth(1, "good")
  \/ \E preset \in {"Daily (morning)", "Hourly"} : ScheduleCreate(1, TRUE, preset)
  \/ \E id \in SchedIds \cup {NULL}, hasEnabled \in BOOLEAN, enabled \in BOOLEAN :
       ScheduleUpdate(1, id, hasEnabled, enabled)
  \/ \E id \in SchedIds \cup {NULL} : ScheduleDelete(1, id)
  \/ \E id \in SchedIds : CronFire(id, TRUE)
  \/ \E id \in SchedIds : TimerFire(id, TRUE)
  \/ \E n \in 1..MaxRuns : RunEvent(n, "close", 0)
  \/ Restart

SpecCron == InitMux /\ [][NextCron]_vars

\* retention: runs write their logs while time passes, the sweep runs every
\* hour and at every start of the server
NextRetention ==
  \/ ScheduleCreate(1, TRUE, "Daily (morning)")
  \/ \E id \in SchedIds : ScheduleTrigger(1, id, TRUE)
  \/ \E n \in 1..MaxRuns, ev \in {"data", "close"} : RunEvent(n, ev, 0)
  \/ \E t \in {1, RetentionMs, RetentionMs + 1, RetentionMs + 2} : Tick(t)
  \/ CleanupSweep

SpecRetention == InitMux /\ [][NextRetention]_vars

\* activity: sessions are created, write and end while time passes
NextActivity ==
  \/ FreePids # {} /\ SessionCreate(1, "", TRUE, FirstFree)
  \/ \E sid \in SessionIds : OnData(sid, 40000)
  \/ \E sid \in SessionIds : OnExit(sid)
  \/ \E sid \in SessionIds : SessionDestroy(1, sid)
  \/ \E t \in {1, ACTIVITY_THRESHOLD_MS - 1, ACTIVITY_THRESHOLD_MS, ACTIVITY_THRESHOLD_MS + 1} :
       Tick(t)

SpecActivity == InitMux /\ [][NextActivity]_vars

\* broadcasts: connections authenticate and close while schedules change, runs
\* complete and the status interval fires
NextBroadcast ==
  \/ \E c \in Clients, token \in Tokens : Auth(c, token)
  \/ \E c \in Clients : WsClose(c)
  \/ \E c \in Clients : ScheduleCreate(c, TRUE, "Daily (morning)")
  \/ \E c \in Clients, id \in SchedIds, enabled \in BOOLEAN : ScheduleUpdate(c, id, TRUE, enabled)
  \/ \E c \in Clients, id \in SchedIds : ScheduleDelete(c, id)
  \/ \E c \in Clients, id \in SchedIds : ScheduleTrigger(c, id, TRUE)
  \/ \E n \in 1..MaxRuns : RunEvent(n, "close", 0)
  \/ StatusBroadcast

SpecBroadcast == Init /\ [][NextBroadcast]_vars

\* terminal input and resize: connections authenticate, create, attach to and
\* destroy sessions, children exit, and text frames and resize commands arrive
NextInput ==
  \/ \E c \in Clients, token \in Tokens : Auth(c, token)
  \/ \E c \in Clients : FreePids # {} /\ SessionCreate(c, "", TRUE, FirstFree)
  \/ \E c \in Clients, sid \in SessionIds : SessionAttach(c, sid, FALSE)
  \/ \E c \in Clients, sid \in SessionIds : SessionDestroy(c, sid)
  \/ \E sid \in SessionIds : OnExit(sid)
  \/ \E c \in Clients : TextFrame(c)
  \/ \E c \in Clients : Resize(c)

SpecInput == Init /\ [][NextInput]_vars

\* schedule:create with every preset label, with fields missing and with
\* labels PRESETS lacks, against schedule:delete and the cron tasks firing
NextPresets ==
  \/ \E c \in Clients, complete \in BOOLEAN, preset \in PresetInputs \cup InheritedKeys :
       ScheduleCreate(c, complete, preset)
  \/ \E id \in SchedIds : ScheduleDelete(1, id)
  \/ \E id \in SchedIds : CronFire(id, TRUE)
  \/ Restart

SpecPresets == InitMux /\ [][NextPresets]_vars

\* notifications: sessions in two directories are created, attached to and
\* destroyed, connections close, and the children write chunks of every kind
NextNotify ==
  \/ \E c \in Clients, cwd \in {"", "/d1"} :
       FreePids # {} /\ SessionCreate(c, cwd, TRUE, FirstFree)
  \/ \E c \in Clients, sid \in SessionIds : SessionAttach(c, sid, FALSE)
  \/ \E c \in Clients, sid \in SessionIds : SessionDestroy(c, sid)
  \/ \E c \in Clients : WsClose(c)
  \/ \E sid \in SessionIds, ch \in ChunkKinds : OnDataParsed(sid, 200, ch)
  \/ \E sid \in SessionIds : OnExit(sid)

SpecNotify == InitMux /\ [][NextNotify]_vars

\* run logs: connection 1 creates a schedule and triggers it, the children
\* write plain output and output that imitates a footer and close with exit
\* code 2, while the clock advances
NextLogs ==
  \/ ScheduleCreate(1, TRUE, "Daily (morning)")
  \/ \E id \in SchedIds, found \in BOOLEAN : ScheduleTrigger(1, id, found)
  \/ \E n \in 1..MaxRuns, ev \in {"data", "footerlike", "close"} : RunEvent(n, ev, 2)
  \/ Tick(5)

SpecLogs == InitMux /\ [][NextLogs]_vars

\* working directories: schedules are created with absolute and home-relative
\* directories and triggered
NextCwd ==
  \/ \E cwd \in ScheduleCwds : ScheduleCreateIn(1, TRUE, "Daily (morning)", cwd)
  \/ \E id \in SchedIds, found \in BOOLEAN : ScheduleTrigger(1, id, found)
  \/ \E n \in 1..MaxRuns, ev \in {"error", "close"} : RunEvent(n, ev, 0)
  \/ Tick(5)

SpecCwd == InitMux /\ [][NextCwd]_vars

\* persistence: schedules are created, updated and deleted while writes of
\* schedules.json fail and succeed
NextPersist ==
  \/ \E c \in Clients : ScheduleCreate(c, TRUE, "Daily (morning)")
  \/ \E c \in Clients, id \in SchedIds, enabled \in BOOLEAN : ScheduleUpdate(c, id, TRUE, enabled)
  \/ \E c \in Clients, id \in SchedIds : ScheduleDelete(c, id)
  \/ \E ok \in BOOLEAN : FsFault(ok)

SpecPersist == InitMux /\ [][NextPersist]_vars

\* Both connections have authenticated; connection 1 is served by app.js.
InitSwitch ==
  /\ state = [c \in Clients |-> [authenticated |-> TRUE, sessionId |-> NULL,
                                 outputHandler |-> NoHandler, exitHandler |-> NoHandler]]
  /\ ws = [c \in Clients |-> [readyState |-> "OPEN", isAuthenticated |-> TRUE]]
  /\ out = None
  /\ sessions = {}
  /\ objs = <<>>
  /\ procs = [p \in Pids |-> IF p = ServerPid THEN Proc("node", ProcessCwd) ELSE NoProc]
  /\ adopts = {}
  /\ signals = {}
  /\ nextHandler = 1
  /\ browser = [c \in Clients |-> IF c = 1 THEN [NoPage EXCEPT !.on = TRUE] ELSE NoPage]
  /\ SchedInit

\* switching: the page of connection 1 creates sessions and switches between
\* them while their children write
NextSwitch ==
  \/ /\ FreePids # {} /\ browser[1].target = NULL
     /\ SessionCreateWithin(1, "", TRUE, FirstFree, MaxSwitches)
  \/ \E sid \in sessions : attachSession(1, sid)
  \/ AttachSent(1, MaxSwitches)
  \/ \E sid \in SessionIds : OnData(sid, 200)

SpecSwitch == InitSwitch /\ [][NextSwitch]_vars

\* deletion: schedules are created, triggered and deleted while their runs are
\* in flight and writes of schedules.json fail and succeed; the server restarts
NextGone ==
  \/ Auth(1, "good")
  \/ ScheduleCreate(1, TRUE, "Daily (morning)")
  \/ \E id \in SchedIds : ScheduleTrigger(1, id, TRUE)
  \/ \E id \in SchedIds : ScheduleDelete(1, id)
  \/ \E n \in 1..MaxRuns : RunEvent(n, "close", 0)
  \/ \E ok \in BOOLEAN : FsFault(ok)
  \/ Restart

SpecGone == InitMux /\ [][NextGone]_vars

\* parsing: the child of a session writes chunks of every kind
NextParse ==
  \/ FreePids # {} /\ SessionCreate(1, "", TRUE, FirstFree)
  \/ \E sid \in SessionIds, ch \in ParseChunks : OnDataParsed(sid, 200, ch)
  \/ \E sid \in SessionIds : OnExit(sid)

SpecParse == InitMux /\ [][NextParse]_vars

\* ------------------------------------------------------------------ claims
\* handleControlMessage has handled a message of this type from connection c
Handle(c, type) ==
  \/ NotAuthenticated(c, type)
  \/ type = "auth" /\ \E token \in Tokens : Auth(c, token)
  \/ type = "session:list" /\ SessionList(c)
  \/ type = "resize" /\ Resize(c)
  \/ type = "session:create" /\
        \E cwd \in CwdInputs, ok \in BOOLEAN, pid \in Pids : SessionCreate(c, cwd, ok, pid)
  \/ type = "session:attach" /\
        \E sid \in SessionIds, hasCache \in BOOLEAN : SessionAttach(c, sid, hasCache)
  \/ type = "session:destroy" /\ \E sid \in SessionIds \cup {NULL} : SessionDestroy(c, sid)
  \/ type = "session:adopt" /\
        \E pid \in {-1, 0} \cup Pids, cwd \in Dirs \cup {""} : SessionAdopt(c, pid, cwd)

\* C1: for every command type other than auth, handling it on a connection whose
\* authenticated flag is false sends exactly one error event to that connection
\* and changes nothing else: the registry, every session's subscriptions, the
\* processes, the pending adoptions, the schedules, their cron jobs, timers, runs
\* and files and every client's state stay as they were, and no other
\* connection is sent anything.
C1_UnauthenticatedRejected ==
  [][\A c \in Clients, type \in CommandTypes \ {"auth"} :
       (~state[c].authenticated /\ Handle(c, type)) =>
         /\ out'[c] = <<ErrorEvent>>
         /\ \A d \in Clients \ {c} : out'[d] = <<>>
         /\ signals' = {}
         /\ UNCHANGED <<state, ws, sessions, objs, procs, adopts, nextHandler>>
         /\ UNCHANGED schedVars]_vars

\* a connection that has not authenticated has just been refused, while the
\* other one holds a session
C1_Witness ==
  \E c \in Clients :
    /\ ~state[c].authenticated
    /\ out[c] = <<ErrorEvent>>
    /\ sessions # {}

\* the sessions on which connection c has an output or an exit handler registered
Registered(c) ==
  {s \in DOMAIN objs :
     \/ \E i \in DOMAIN objs[s].onOutput : objs[s].onOutput[i].c = c
     \/ \E i \in DOMAIN objs[s].onExit : objs[s].onExit[i].c = c}

IsText(f) == f.t \in {"live", "history"}

\* C2: in every reachable state each client has an output handler and an exit
\* handler registered on at most one session, that session is the one named by
\* its attachedSessionId, and the text frames it is sent come from that session.
C2_OneSubscription ==
  \A c \in Clients :
    /\ Cardinality(Registered(c)) <= 1
    /\ Registered(c) \subseteq {state[c].sessionId}
    /\ \A i \in DOMAIN out[c] : IsText(out[c][i]) => out[c][i].sid = state[c].sessionId

\* the live frames among fs
LiveFrames(fs) == SelectSeq(fs, LAMBDA f : f.t = "live")

\* connection c is attached to session s with an open socket
Attached(c, s) ==
  /\ ws[c].readyState = "OPEN"
  /\ state[c].sessionId = s
  /\ state[c].outputHandler # NoHandler

\* the PTY of session s has read a chunk in this step
Read(s) == s \in DOMAIN objs /\ Len(objs'[s].stream) = Len(objs[s].stream) + 1

\* the chunk the PTY of session s has just read
LastChunk(s) ==
  LET n == Len(objs'[s].stream)
  IN <<[n |-> n, lo |-> 1, hi |-> objs'[s].stream[n]]>>

\* C3: while a client is attached to a session S with an open connection, the
\* live text frames it is sent are exactly the chunks the PTY of S reads: one
\* frame for each chunk read, in the step that reads it, and no frame otherwise
\* (nothing dropped, duplicated or taken from another session).
C3_ExactStream ==
  [][\A c \in Clients, s \in SessionIds :
       (Attached(c, s) /\ state'[c] = state[c] /\ ws'[c] = ws[c]) =>
         LiveFrames(out'[c]) =
           IF Read(s)
           THEN <<Text("live", s, state[c].outputHandler.n, Len(objs'[s].stream), LastChunk(s))>>
           ELSE <<>>]_vars

\* the handler closures registered for output on session s whose identity is n
OutputHandlers(s, n) ==
  {objs[s].onOutput[j] : j \in {k \in DOMAIN objs[s].onOutput : objs[s].onOutput[k].n = n}}

\* C4: a session:attached event is the first frame its handler sends and the
\* replayed history, if any, is the frame right after it; the history holds only
\* chunks read before the attach, and a live frame is sent by a handler closure
\* subscribed in an earlier step and carries a chunk read after its attach, so no
\* chunk reaches an attachment both replayed and live.
C4_AttachOrder ==
  [][\A c \in Clients :
       LET fs == out'[c]
       IN /\ \A i \in DOMAIN fs : fs[i].t = "session:attached" =>
                /\ i = 1 /\ Len(fs) <= 2
                /\ fs[i].h = nextHandler
                /\ fs[i].pos = Len(objs[fs[i].sid].stream)
          /\ \A i \in DOMAIN fs : fs[i].t = "history" =>
                /\ i = 2
                /\ fs[1] = Ctl("session:attached", fs[i].sid, fs[i].h, fs[i].pos)
                /\ \A k \in DOMAIN fs[i].data : fs[i].data[k].n <= fs[i].pos
          /\ \A i \in DOMAIN fs : fs[i].t = "live" =>
                /\ fs[i].h < nextHandler
                /\ \E h \in OutputHandlers(fs[i].sid, fs[i].h) : h.c = c /\ h.from < fs[i].pos
                /\ \A k \in DOMAIN fs[i].data : fs[i].data[k].n = fs[i].pos]_vars

\* a connection attached after the first chunk and has now been sent the second
\* one live
C4_Witness ==
  \E c \in Clients : \E i \in DOMAIN out[c] :
    /\ out[c][i].t = "live"
    /\ out[c][i].pos = 2
    /\ state[c].outputHandler.n = out[c][i].h
    /\ state[c].outputHandler.from = 1

\* the frames the claim expects of a successful session:attach; replay says
\* whether an empty history is replayed as a frame too
ExpectedAttach(sid, hasCache, replayEmpty) ==
  LET pos == Len(objs[sid].stream)
      attached == Ctl("session:attached", sid, nextHandler, pos)
      history == objs[sid].outputHistory
  IN IF hasCache \/ (history = <<>> /\ ~replayEmpty)
     THEN <<attached>>
     ELSE <<attached, Text("history", sid, nextHandler, pos, history)>>

\* C5: on session:attach to an existing session, with hasCache=true the server
\* sends exactly one session:attached event and no history frame; otherwise it
\* sends session:attached followed immediately by the session's history as one
\* text frame when the history is not empty, and session:attached alone when
\* it is empty.
C5_AttachReplay ==
  [][\A c \in Clients, sid \in SessionIds, hasCache \in BOOLEAN :
       (sid \in sessions /\ SessionAttach(c, sid, hasCache)) =>
         out'[c] = ExpectedAttach(sid, hasCache, FALSE)]_vars

\* C5 as stated: without hasCache the history is replayed as one text frame
\* right after session:attached, whatever it holds.
C5_AsStated ==
  [][\A c \in Clients, sid \in SessionIds, hasCache \in BOOLEAN :
       (sid \in sessions /\ SessionAttach(c, sid, hasCache)) =>
         out'[c] = ExpectedAttach(sid, hasCache, TRUE)]_vars

\* an attach without a client cache has just replayed a non-empty history
C5_Witness ==
  \E c \in Clients :
    /\ Len(out[c]) = 2
    /\ out[c][2].t = "history"
    /\ out[c][2].data # <<>>

\* C6: session:exit is sent to an attachment only in the step that handles the
\* child's exit, which happens once per session, and once per attachment in that
\* step; it carries the number of chunks read; every chunk read while an
\* attachment is subscribed is sent to its open connection in the step that
\* reads it, a closed connection never reopens, and no live frame of a session
\* is sent at or after its exit.
C6_ExitLast ==
  [][/\ \A c \in Clients :
          LET fs == out'[c]
          IN /\ \A i \in DOMAIN fs : fs[i].t = "session:exit" =>
                   /\ ~objs[fs[i].sid].exited /\ objs'[fs[i].sid].exited
                   /\ fs[i].pos = Len(objs[fs[i].sid].stream)
                   /\ \A j \in DOMAIN fs : j # i => ~(fs[j].t = "session:exit" /\ fs[j].h = fs[i].h)
                   /\ \A j \in DOMAIN fs : j > i => ~(IsText(fs[j]) /\ fs[j].sid = fs[i].sid)
             /\ \A i \in DOMAIN fs : fs[i].t = "live" => ~objs'[fs[i].sid].exited
     /\ \A s \in SessionIds : Read(s) =>
          \A j \in DOMAIN objs[s].onOutput :
            LET h == objs[s].onOutput[j]
            IN ws[h.c].readyState = "OPEN" =>
                 \E i \in DOMAIN out'[h.c] :
                   out'[h.c][i] = Text("live", s, h.n, Len(objs'[s].stream), LastChunk(s))
     /\ \A s \in DOMAIN objs : objs[s].exited => objs'[s].exited
     /\ \A c \in Clients : ws[c].readyState = "CLOSED" => ws'[c].readyState = "CLOSED"]_vars

\* a connection has just been sent session:exit for an attachment during which
\* chunks were read
C6_Witness ==
  \E c \in Clients : \E i \in DOMAIN out[c] :
    /\ out[c][i].t = "session:exit"
    /\ out[c][i].pos = 2
    /\ \E j \in DOMAIN objs[out[c][i].sid].onExit :
         /\ objs[out[c][i].sid].onExit[j].n = out[c][i].h
         /\ objs[out[c][i].sid].onExit[j].from = 0

\* C7: once a connection's close event has been handled, no session holds an
\* output handler or an exit handler of that client.
C7_ClosedHoldsNothing ==
  \A c \in Clients : ws[c].readyState = "CLOSED" => Registered(c) = {}

\* the units of the first n chunks of a stream
RECURSIVE Before(_, _)
Before(stream, n) == IF n = 0 THEN 0 ELSE stream[n] + Before(stream, n - 1)

\* the place of a segment's first and last unit in the session's whole output
AbsLo(stream, seg) == Before(stream, seg.n - 1) + seg.lo
AbsHi(stream, seg) == Before(stream, seg.n - 1) + seg.hi

\* h is the last k units of the stream, in order
Recent(h, stream, k) ==
  LET total == Before(stream, Len(stream))
  IN IF k = 0 THEN h = <<>>
     ELSE /\ h # <<>>
          /\ \A i \in DOMAIN h : /\ h[i].n \in DOMAIN stream
                                 /\ 1 <= h[i].lo /\ h[i].lo <= h[i].hi
                                 /\ h[i].hi <= stream[h[i].n]
          /\ AbsLo(stream, h[1]) = total - k + 1
          /\ AbsHi(stream, h[Len(h)]) = total
          /\ \A i \in 2..Len(h) : AbsLo(stream, h[i]) = AbsHi(stream, h[i - 1]) + 1

\* the history of every session is within cap and, after a chunk of n units
\* arrives at a buffer of L units, is the most recent min(L + n, cap) units
HistoryBounded(cap) ==
  \A s \in DOMAIN objs' :
    /\ HLen(objs'[s].outputHistory) <= cap
    /\ Read(s) =>
         LET L == HLen(objs[s].outputHistory)
             n == objs'[s].stream[Len(objs'[s].stream)]
         IN /\ HLen(objs'[s].outputHistory) = Min(L + n, cap)
            /\ Recent(objs'[s].outputHistory, objs'[s].stream, Min(L + n, cap))

\* C8: for every session the history buffer never exceeds MAX_HISTORY_SIZE =
\* 100 000 string units; after a chunk of n units arrives when the buffer holds
\* L units, it holds exactly min(L + n, 100 000) units, the most recent ones of
\* the session's output.
C8_HistoryCap == [][HistoryBounded(MAX_HISTORY_SIZE)]_vars

\* C8 as stated, with a capacity of 100 KiB = 102 400.
C8_AsStated == [][HistoryBounded(KiB100)]_vars

\* a session has read more than the cap and its history has been trimmed to it
C8_Witness ==
  \E s \in DOMAIN objs :
    /\ Before(objs[s].stream, Len(objs[s].stream)) > MAX_HISTORY_SIZE
    /\ HLen(objs[s].outputHistory) = MAX_HISTORY_SIZE
    /\ Len(objs[s].outputHistory) = 2

\* the pair an adoption call was asked to adopt
Pair(a) == [pid |-> a.pid, cwd |-> a.cwd]

\* C9: adoptExternalSession(pid, cwd) sends a signal to pid, and creates the
\* --continue session, only if (pid, cwd) is in the discovery snapshot computed
\* in that same call; when the pair is absent the call fails: its step sends the
\* client one error, no signal, and creates no session.
C9_OnlyDiscovered ==
  [][/\ \A sg \in signals' : [pid |-> sg.pid, cwd |-> sg.cwd] \in sg.snapshot
     /\ \A a \in adopts :
          (a.pc = "check" /\ Pair(a) \notin a.discovered /\ a \notin adopts') =>
            /\ signals' = {}
            /\ UNCHANGED <<sessions, objs, procs, state>>
            /\ out'[a.c] = <<ErrorEvent>>
            /\ \A b \in adopts' : b.c # a.c
     /\ \A id \in sessions' \ sessions :
          objs'[id].args = <<"--continue">> =>
            \E a \in adopts \ adopts' :
              /\ a.pc = "wait"
              /\ Pair(a) \in a.discovered
              /\ objs'[id].cwd = a.cwd]_vars

\* an adoption has gone through: the session that continues the adopted
\* process is in the registry
C9_Witness ==
  \E id \in sessions :
    /\ objs[id].args = <<"--continue">>
    /\ state[2].sessionId = id

\* C10: adoption never signals the process of a session that is in the registry
\* when the signal is sent, nor the server's own process.
C10_NeverSignalsManaged ==
  \A sg \in signals : sg.pid \notin sg.managed /\ sg.pid # ServerPid

\* an event of the child of run n has been handled in this step
EventOf(n) == n \in DOMAIN runs /\ runs'[n].evs # runs[n].evs

\* C11: for every run whose child was spawned, whatever events of the child
\* arrive and in whatever order, finalizeLog's body runs at most once, the
\* footer is the last write to the log stream, and an event handled after the
\* finalization writes nothing, updates no schedule, saves nothing and
\* broadcasts nothing.
C11_FinalizeAtMostOnce ==
  [][\A n \in DOMAIN runs' : runs'[n].spawned =>
       /\ runs'[n].fin <= 1
       /\ \A i \in DOMAIN runs'[n].log :
            runs'[n].log[i] = "footer" => i = Len(runs'[n].log)
       /\ (EventOf(n) /\ runs[n].fin >= 1) =>
            /\ runs'[n].log = runs[n].log
            /\ sobjs' = sobjs /\ disk' = disk /\ out' = None]_vars

\* a run has been finalized by error, and close and data have arrived after it
C11_Witness ==
  \E n \in DOMAIN runs :
    /\ runs[n].spawned /\ runs[n].fin = 1
    /\ runs[n].evs = <<"error", "close", "data">>

\* executeSchedule has returned and, if it spawned a child, the child's close
\* or error has been handled
Over(r) == ~r.spawned \/ \E i \in DOMAIN r.evs : r.evs[i] \in {"close", "error"}

\* C12: every run that is over, the runs whose binary was not found included,
\* has been finalized exactly once: one footer, one update of lastRun with its
\* save, one schedule:run_complete.
C12_FinalizedExactlyOnce ==
  \A n \in DOMAIN runs : Over(runs[n]) =>
    /\ runs[n].fin = 1
    /\ Cardinality({i \in DOMAIN runs[n].log : runs[n].log[i] = "footer"}) = 1

\* C13: once a schedule has been deleted, its runs directory does not exist and
\* no schedule:run_complete naming it is broadcast.
C13_DeletedStaysGone ==
  \A id \in DOMAIN sobjs : id \notin schedules =>
    /\ id \notin disk.dirs
    /\ \A c \in Clients : \A i \in DOMAIN out[c] :
         ~(out[c][i].t = "schedule:run_complete" /\ out[c][i].sid = id)

\* C14: for every schedule id, the cronJobs map holds a task and exactly one
\* cron task of that id is running if the schedule exists and is enabled; the
\* map holds none and none is running otherwise.
C14_OneCronJobIffEnabled ==
  \A id \in SchedIds :
    LET on == id \in schedules /\ sobjs[id].enabled
    IN /\ id \in cronJobs <=> on
       /\ tasks[id] = IF on THEN 1 ELSE 0

\* one schedule is enabled with its task, another has been disabled
C14_Witness ==
  \E a \in schedules, b \in schedules :
    /\ sobjs[a].enabled /\ a \in cronJobs /\ tasks[a] = 1
    /\ ~sobjs[b].enabled /\ b \notin cronJobs

\* C15: schedule:trigger for a schedule that exists starts one execution of it
\* in the handler itself, sets no timer, whether the schedule is enabled or
\* not, and sends schedule:triggered to the connection that asked and to no
\* other.
C15_TriggerRunsNow ==
  [][\A c \in Clients, id \in SchedIds, found \in BOOLEAN :
       (id \in schedules /\ ScheduleTrigger(c, id, found)) =>
         /\ Len(runs') = Len(runs) + 1
         /\ runs'[Len(runs')].sid = id
         /\ SubSeq(runs', 1, Len(runs)) = runs
         /\ timers' = timers
         /\ out' = [None EXCEPT ![c] = <<Ctl("schedule:triggered", id, 0, 0)>>]]_vars

\* a disabled schedule has just been triggered
C15_Witness ==
  \E c \in Clients, id \in schedules :
    /\ out[c] = <<Ctl("schedule:triggered", id, 0, 0)>>
    /\ ~sobjs[id].enabled
    /\ runs # <<>> /\ runs[Len(runs)].sid = id /\ runs[Len(runs)].evs = <<>>

\* C16: a restart gives back the schedules the server held: the same ids, each
\* with the same fields (enabled and lastRun included), and a cron job for
\* exactly the enabled ones.
C16_RestartKeepsSchedules ==
  [][Restart =>
       /\ schedules' = schedules
       /\ \A id \in schedules : sobjs'[id] = sobjs[id]
       /\ cronJobs' = {id \in schedules : sobjs[id].enabled}
       /\ \A id \in SchedIds : tasks'[id] = IF id \in cronJobs' THEN 1 ELSE 0]_vars

\* the server has been restarted holding a schedule that had run and
\* a schedule that was disabled
C16_Witness ==
  /\ ~state[1].authenticated
  /\ runs # <<>> /\ \A n \in DOMAIN runs : ~runs[n].alive
  /\ \E a \in schedules, b \in schedules :
       /\ sobjs[a].lastRun # NoRun /\ a \in cronJobs
       /\ ~sobjs[b].enabled /\ b \notin cronJobs

\* C17: a sweep with cutoff t = now - 7 days removes every log file with
\* mtime < t, keeps every log file with mtime >= t, creates none, and removes
\* exactly the per-schedule directories it leaves without a file.
C17_SweepRetention ==
  [][CleanupSweep =>
       LET t == now - RetentionMs
       IN /\ \A f \in disk.files : f \in disk'.files <=> f.mtime >= t
          /\ disk'.files \subseteq disk.files
          /\ \A d \in disk.dirs :
               d \in disk'.dirs <=> \E f \in disk'.files : f.sid = d]_vars

\* a sweep has removed the log of one run and its directory and has kept a
\* log written exactly at the cutoff
C17_Witness ==
  \E n \in DOMAIN runs, m \in DOMAIN runs :
    /\ ~\E f \in disk.files : f.run = n
    /\ runs[n].sid \notin disk.dirs
    /\ \E f \in disk.files : f.run = m /\ f.mtime = now - RetentionMs

\* C18: the activityStatus of a session record is busy exactly when the
\* session is running and its last activity is less than 30 s old, and idle
\* otherwise.
C18_BusyIffRecent ==
  \A s \in DOMAIN objs :
    LET recent == objs[s].status = "running" /\ now - objs[s].lastActivityTime < 30000
    IN getInfo(objs[s]).activityStatus = IF recent THEN "busy" ELSE "idle"

\* a session that wrote output has stopped less than 30 s later, another is
\* running exactly 30 s after its last activity
C18_Witness ==
  \E s \in DOMAIN objs, r \in DOMAIN objs :
    /\ objs[s].status = "stopped" /\ objs[s].stream # <<>>
    /\ now - objs[s].lastActivityTime < 30000
    /\ objs[r].status = "running" /\ now - objs[r].lastActivityTime = 30000

\* C19: the session record in session:created for a session that has just
\* been created, and has produced no output, has status running and
\* activityStatus idle.
C19_CreatedIdle ==
  [][\A c \in Clients : \A i \in DOMAIN out'[c] :
       out'[c][i].t = "session:created" =>
         /\ out'[c][i].session.status = "running"
         /\ out'[c][i].session.activityStatus = "idle"]_vars

\* the types of the broadcast events
BroadcastTypes == {"session:status", "schedule:updated", "schedule:run_complete"}

\* connection c has been sent a broadcast event in this step
GotBroadcast(c) == \E i \in DOMAIN out'[c] : out'[c][i].t \in BroadcastTypes

\* this step broadcasts: the status interval, a schedule mutation or a run's
\* finalization
Broadcasting ==
  \/ StatusBroadcast
  \/ schedules' # schedules
  \/ sobjs' # sobjs
  \/ \E c \in Clients : GotBroadcast(c)

\* C20: a connection's isAuthenticated flag equals its client state's
\* authenticated flag, and a step that broadcasts sends the event to every OPEN
\* connection that has authenticated and to no other connection.
C20_BroadcastToAuthenticated ==
  [][/\ \A c \in Clients : ws'[c].isAuthenticated = state'[c].authenticated
     /\ Broadcasting =>
          \A c \in Clients :
            GotBroadcast(c) <=> (ws[c].readyState = "OPEN" /\ state[c].authenticated)]_vars

\* a run's completion has reached an authenticated connection while the other
\* connection, open and not authenticated, got nothing
C20_Witness ==
  \E c \in Clients, d \in Clients :
    /\ \E i \in DOMAIN out[c] : out[c][i].t = "schedule:run_complete"
    /\ state[c].authenticated
    /\ ws[d].readyState = "OPEN" /\ ~state[d].authenticated /\ out[d] = <<>>

\* session:create of connection c is refused: the directory is missing, is not
\* a directory, or the spawn throws
FailedCreate(c) ==
  \E msgCwd \in CwdInputs, spawnOk \in BOOLEAN :
    /\ LET cwd == IF msgCwd = "" THEN ProcessCwd ELSE msgCwd
       IN ~existsSync(cwd) \/ ~isDirectory(cwd) \/ ~spawnOk
    /\ FreePids # {}
    /\ SessionCreate(c, msgCwd, spawnOk, FirstFree)

\* C21: a session:create that fails sends exactly one error event to the
\* issuing client and leaves everything else as it was: the client's
\* attachedSessionId, the output and exit subscriptions on every session, and
\* the registry.
C21_FailedCreateChangesNothing ==
  [][\A c \in Clients :
       FailedCreate(c) =>
         /\ out' = sendControl(None, c, ErrorEvent)
         /\ state'[c].sessionId = state[c].sessionId
         /\ \A s \in DOMAIN objs :
              /\ objs'[s].onOutput = objs[s].onOutput
              /\ objs'[s].onExit = objs[s].onExit
         /\ sessions' = sessions]_vars

\* C22: a text frame of a client is written to a PTY only if the client is
\* authenticated and its attachedSessionId names a session of the registry,
\* and then only to that session; in every case the frame sends no event and
\* changes nothing else.
C22_TextFrameToAttachedOnly ==
  [][\A c \in Clients :
       TextFrame(c) =>
         /\ out' = None
         /\ UNCHANGED <<state, ws, sessions, procs, adopts, nextHandler, schedVars>>
         /\ \A s \in DOMAIN objs :
              objs'[s] # objs[s] =>
                /\ state[c].authenticated
                /\ s = state[c].sessionId /\ s \in sessions
                /\ objs'[s] = [objs[s] EXCEPT !.input = @ + 1]]_vars

\* a text frame has reached the PTY of a session while another session is in
\* the registry and has received none
C22_Witness ==
  \E s \in sessions, t \in sessions, c \in Clients :
    /\ s # t /\ objs[s].input > 0 /\ objs[t].input = 0
    /\ state[c].authenticated /\ state[c].sessionId = s

\* C28: PtySession.write forwards the bytes to the PTY master when the status
\* is running and does nothing when the status is stopped, after stop() as
\* well as after the child has exited on its own.
C28_WriteOnlyWhenRunning ==
  [][\A c \in Clients :
       LET s == state[c].sessionId
       IN TextFrame(c) /\ state[c].authenticated /\ s \in sessions =>
            /\ objs[s].status = "running" => objs'[s].input = objs[s].input + 1
            /\ objs[s].status = "stopped" => objs'[s] = objs[s]]_vars

\* C23: a resize command of an authenticated client never produces an error
\* event, whatever the state: no attached session, an attached session that
\* has exited, been stopped or destroyed, or a message without cols or rows.
C23_ResizeNeverErrors ==
  [][\A c \in Clients :
       Resize(c) /\ state[c].authenticated =>
         \A d \in Clients : \A i \in DOMAIN out'[d] : out'[d][i] # ErrorEvent]_vars

\* after a step that sent nothing, an authenticated client is attached to a
\* session whose child has exited while another is attached to a destroyed one
C23_Witness ==
  \E c \in Clients, d \in Clients :
    /\ out = None
    /\ state[c].authenticated /\ state[c].sessionId \in sessions
    /\ objs[state[c].sessionId].exited
    /\ state[d].authenticated /\ state[d].sessionId # NULL
    /\ state[d].sessionId \notin sessions

\* a second destroySession(id): the id is no longer in the registry
SecondDestroy(c, id) == SessionDestroy(c, id) /\ id \notin sessions

\* C24: destroySession is idempotent: a second call for the same id leaves the
\* registry and every session as the first call left them and calls pty.kill()
\* on no session; and PtySession.stop() on a session that stop() has already
\* stopped does nothing.
C24_DestroyIdempotent ==
  [][/\ \A c \in Clients, id \in SessionIds :
          SecondDestroy(c, id) => objs' = objs /\ sessions' = sessions /\ signals' = {}
     /\ \A s \in DOMAIN objs :
          /\ stop(stop(objs, s), s) = stop(objs, s)
          /\ ~objs[s].pty => stop(objs, s) = objs]_vars

\* C24 as stated: stop() on any session whose status is stopped does nothing
C24_AsStated ==
  [][/\ \A c \in Clients, id \in SessionIds :
          SecondDestroy(c, id) => objs' = objs /\ sessions' = sessions /\ signals' = {}
     /\ \A s \in DOMAIN objs :
          objs[s].status = "stopped" => stop(objs, s) = objs]_vars

\* session:destroyed has just been answered for a session that is out of the
\* registry, whose pty was killed once, while another session is registered
C24_Witness ==
  \E c \in Clients, s \in DOMAIN objs :
    /\ s \notin sessions /\ sessions # {}
    /\ objs[s].kills = 1 /\ ~objs[s].pty
    /\ out[c] = <<Ctl("session:destroyed", s, 0, 0)>>

\* C25: for every label of the preset table, a schedule created with it has
\* the cron expression of the table and a maximum random delay per firing of
\* three hours.
C25_PresetTable ==
  \A id \in DOMAIN sobjs :
    LET l == sobjs[id].presetLabel
        cron == sobjs[id].cronExpression
    IN /\ l \in {"Daily (morning)", "Daily (afternoon)", "Daily (evening)",
                 "Weekdays (morning)", "Weekdays (afternoon)", "Weekdays (evening)",
                 "Weekly (morning)", "Weekly (afternoon)", "Weekly (evening)"}
            => maxDelay(l) = 10800000
       /\ l = "Daily (morning)" => cron = "0 7 * * *"
       /\ l = "Daily (afternoon)" => cron = "0 12 * * *"
       /\ l = "Daily (evening)" => cron = "0 17 * * *"
       /\ l = "Weekdays (morning)" => cron = "0 7 * * 1-5"
       /\ l = "Weekdays (afternoon)" => cron = "0 12 * * 1-5"
       /\ l = "Weekdays (evening)" => cron = "0 17 * * 1-5"
       /\ l = "Weekly (morning)" => cron = "0 7 * * 1"
       /\ l = "Weekly (afternoon)" => cron = "0 12 * * 1"
       /\ l = "Weekly (evening)" => cron = "0 17 * * 1"

\* a weekday evening and a weekly afternoon schedule exist and the random-delay
\* timer of a firing of the first is pending
C25_Witness ==
  /\ Len(sobjs) = 2
  /\ sobjs[1].presetLabel = "Weekdays (evening)"
  /\ sobjs[2].presetLabel = "Weekly (afternoon)"
  /\ 1 \in timers

\* C26: a schedule:create that lacks name, prompt, cwd or preset, or whose
\* preset is not a label of the table, sends exactly one error event to the
\* issuing client and changes nothing: no schedule, no cron job, no write of
\* the schedules file and no schedule:updated broadcast.
C26_RefusedCreateChangesNothing ==
  [][\A c \in Clients, complete \in BOOLEAN, preset \in PresetInputs \cup InheritedKeys :
       /\ ~complete \/ preset \notin {"Daily (morning)", "Daily (afternoon)",
            "Daily (evening)", "Weekdays (morning)", "Weekdays (afternoon)",
            "Weekdays (evening)", "Weekly (morning)", "Weekly (afternoon)",
            "Weekly (evening)"}
       /\ ScheduleCreate(c, complete, preset)
       => /\ out' = sendControl(None, c, ErrorEvent)
          /\ UNCHANGED <<schedules, sobjs, cronJobs, tasks, timers, runs, disk>>]_vars

\* C27: once the status of a session is stopped, by stop(), destroySession or
\* the exit of its child, the session emits no further output event and
\* appends nothing more to its history.
C27_NoOutputAfterStopped ==
  [][\A s \in DOMAIN objs :
       objs[s].status = "stopped" /\ s \in DOMAIN objs' =>
         /\ objs'[s].stream = objs[s].stream
         /\ objs'[s].outputHistory = objs[s].outputHistory
         /\ \A c \in Clients : \A i \in DOMAIN out'[c] :
              ~(out'[c][i].t = "live" /\ out'[c][i].sid = s)]_vars

\* killProcess of adoption a returns in this step; the value it returns is true
\* on every path this model follows (no process.kill throws)
KillReturnsTrue(a) ==
  \/ AdoptCheck(a) /\ isValid(a) /\ ~isProcessRunning(a.pid)
  \/ AdoptPoll(a)

\* C29: killProcess sends the graceful terminate first, sends the unconditional
\* kill only to a process still alive when the timeout has elapsed, and returns
\* true only if the process is no longer running when it returns.
C29_KillProcess ==
  [][\A a \in adopts :
       /\ AdoptCheck(a) => \A sg \in signals' : sg.sig = "SIGTERM"
       /\ AdoptPoll(a) =>
            /\ \A sg \in signals' : sg.sig = "SIGKILL" /\ sg.pid = a.pid
            /\ signals' # {} => isProcessRunning(a.pid)
       /\ KillReturnsTrue(a) => ~procs'[a.pid].alive]_vars

\* the session:input_required events among fs
Notes(fs) == SelectSeq(fs, LAMBDA f : f.t = "session:input_required")

\* C30: whenever a chunk of session S parses to an ask_user event, every client
\* attached to S with an open connection is sent exactly one
\* session:input_required for it, right after the chunk's text frame, with S's
\* id, the last segment of S's cwd and the first 150 units of the chunk; no
\* such event is sent for a chunk of another type or to a client that is not
\* attached to S.
C30_InputRequired ==
  [][\A S \in SessionIds, ch \in ChunkKinds :
       OnDataParsed(S, 200, ch) =>
         \A c \in Clients :
           LET fs == out'[c]
               n == Len(objs'[S].stream)
           IN IF parseOutput(ch) = "ask_user" /\ ws[c].readyState = "OPEN"
                 /\ state[c].sessionId = S
              THEN /\ Len(Notes(fs)) = 1
                   /\ \E i \in DOMAIN fs :
                        /\ i > 1 /\ fs[i].t = "session:input_required"
                        /\ fs[i - 1].t = "live" /\ fs[i - 1].sid = S /\ fs[i - 1].pos = n
                        /\ fs[i].sid = S
                        /\ fs[i].sessionName = (IF objs[S].cwd = "/d1" THEN "d1" ELSE "d2")
                        /\ fs[i].preview = <<[n |-> n, lo |-> 1, hi |-> 150]>>
              ELSE Notes(fs) = <<>>]_vars

\* C31: for every run-log file, listRuns reports the exit code and the duration
\* written in the file's footer, whatever the header and the captured output
\* contain, and exitCode null for a log that has no footer yet.
C31_ListRunsReadsFooter ==
  \A id \in disk.dirs : \A i \in DOMAIN listRuns(id) :
    LET l == listRuns(id)[i]
        r == runs[l.timestamp]
    IN IF r.footer = <<>> THEN l.exitCode = <<>>
       ELSE /\ l.exitCode = <<r.footer[1].exitCode>>
            /\ l.durationMs = r.footer[1].durationMs

\* a schedule command of connection c that reaches saveSchedules
Saving(c) ==
  \/ ScheduleCreate(c, TRUE, "Daily (morning)")
  \/ \E id \in schedules, enabled \in BOOLEAN : ScheduleUpdate(c, id, TRUE, enabled)
  \/ \E id \in SchedIds : ScheduleDelete(c, id)

\* C32: when writing the schedules file fails during a schedule:create,
\* schedule:update or schedule:delete command, the issuing client receives an
\* error event for that command.
C32_SaveFailureReported ==
  [][\A c \in Clients :
       Saving(c) /\ ~disk.writable =>
         \E i \in DOMAIN out'[c] : out'[c][i] = ErrorEvent]_vars

\* C33: parseOutput classifies every chunk into exactly one event, with
\* priority ask_user, tool_start, diff, text: a chunk that is not ask_user is
\* tool_start if and only if its text contains any of Read, Edit, Write, Bash,
\* Glob, Grep, with toolName the first such token; otherwise it is diff if and
\* only if it contains @@ together with + or -; otherwise text.
C33_ParsePriority ==
  \A s \in DOMAIN objs : \A i \in DOMAIN objs[s].parsed :
    LET e == objs[s].parsed[i]
        ch == e.chunk
    IN IF e.type = "ask_user" THEN TRUE
       ELSE IF ch.tools # <<>> THEN e.type = "tool_start" /\ e.toolName = ch.tools[1]
       ELSE IF ch.hunk /\ ch.sign THEN e.type = "diff"
       ELSE e.type = "text"

\* C34: every entry of the result of detectClaudeProcesses(excludePids) is a
\* process that is not a zombie, is owned by the user the server runs as, has
\* a pid that is neither in excludePids nor the server's own, has a first
\* argv token that is the binary name or a path ending in it without .app,
\* and has a resolved cwd, whatever the server's environment holds.
C34_DetectedAreOwnClaude ==
  [][\A a \in adopts :
       AdoptPs(a, TRUE) =>
         \A b \in adopts' \ adopts : \A e \in b.discovered :
           LET p == procs[e.pid]
           IN /\ p.alive /\ ~p.zombie /\ p.user = CurrentUser
              /\ e.pid \notin a.managedPids /\ e.pid # ServerPid
              /\ p.exe \in {"claude", "/usr/local/bin/claude"}
              /\ e.cwd = p.cwd /\ e.cwd # ""]_vars

\* the directory a leading ~ or ~/ stands for
ExpandHome(cwd) ==
  IF cwd = "~" THEN "/home/u" ELSE IF cwd = "~/proj" THEN "/home/u/proj" ELSE cwd

\* C35: for every scheduled run, the cwd passed to the spawned child is
\* schedule.cwd with a leading ~ or ~/ replaced by the home directory; a cwd
\* beginning with ~ is never passed to spawn unexpanded.
C35_SpawnCwdExpanded ==
  [][Len(runs') > Len(runs) =>
       LET r == runs'[Len(runs')]
       IN r.spawned => /\ r.cwd = ExpandHome(sobjs[r.sid].cwd)
                       /\ r.cwd \notin {"~", "~/proj"}]_vars

\* a failed auth command of an authenticated connection
FailedAuth(c) == state[c].authenticated /\ \E token \in {"", "bad"} : Auth(c, token)

\* C36: authentication is monotone per connection: once a valid auth command
\* was handled the connection stays authenticated, and a later auth command
\* with a missing or wrong token sends auth:failed and revokes neither the
\* authenticated flag, nor the eligibility for broadcasts, nor the attachment.
C36_AuthMonotone ==
  [][\A c \in Clients :
       /\ state[c].authenticated => state'[c].authenticated
       /\ ws[c].isAuthenticated => ws'[c].isAuthenticated
       /\ FailedAuth(c) =>
            /\ out' = sendControl(None, c, Ctl("auth:failed", NULL, 0, 0))
            /\ state'[c] = state[c] /\ ws'[c] = ws[c]
            /\ objs' = objs /\ sessions' = sessions]_vars

\* an attached connection has just been sent auth:failed
C36_Witness ==
  \E c \in Clients :
    /\ state[c].authenticated /\ ws[c].isAuthenticated
    /\ state[c].sessionId # NULL /\ state[c].outputHandler # NoHandler
    /\ out = sendControl(None, c, Ctl("auth:failed", NULL, 0, 0))

\* schedule id is in no list, in no entry of schedules.json and has no cron job
Gone(id) ==
  /\ id \notin schedules
  /\ \A j \in disk.json : j.id # id
  /\ id \notin cronJobs /\ tasks[id] = 0

\* C37: a deleted schedule never reappears: after deleteSchedule(id) the id is
\* absent from listSchedules(), from the persisted file and from the cron
\* registrations, and stays so, also when a run that started before the
\* delete finalizes afterwards, updates lastRun and saves.
C37_DeletedNeverReappears ==
  [][\A id \in DOMAIN sobjs :
       /\ (\E c \in Clients : ScheduleDelete(c, id)) => Gone(id)'
       /\ Gone(id) => Gone(id)']_vars

\* a cron-initiated execution of schedule id starts: the cron callback runs
\* executeSchedule at once, or the timer of its random delay does
CronExecution(id) ==
  \E found \in BOOLEAN :
    \/ TimerFire(id, found)
    \/ CronFire(id, found) /\ Len(runs') > Len(runs)

\* C38: after updateSchedule(id, {enabled: false}) has returned, no
\* cron-initiated execution of that schedule starts until it is enabled
\* again, also when a cron firing had occurred before and was waiting out
\* its random delay.
C38_DisabledNeverStarts ==
  [][\A id \in schedules : ~sobjs[id].enabled => ~CronExecution(id)]_vars

\* the number of frames of type t naming session sid among the frames fr
FramesOf(fr, t, sid) == Len(SelectSeq(fr, LAMBDA x : x.t = t /\ x.sid = sid))

\* connection d is open and was attached to session sid when it was destroyed
AttachedToDestroyed(d, sid) ==
  /\ ws[d].readyState = "OPEN"
  /\ state[d].sessionId = sid /\ sid \in DOMAIN objs /\ sid \notin sessions

\* C39: when one client destroys a session, only that client receives
\* session:destroyed; every client that is open and was attached to the
\* session at that moment receives exactly one session:exit for it, and no
\* error event, when the child exits; the text frames such a client sends
\* afterwards are dropped.
C39_DestroyNotifiesAttached ==
  [][/\ \A c \in Clients, sid \in SessionIds :
          SessionDestroy(c, sid) =>
            \A d \in Clients :
              /\ FramesOf(out'[d], "session:destroyed", sid) = (IF d = c THEN 1 ELSE 0)
              /\ FramesOf(out'[d], "error", NULL) = 0
     /\ \A sid \in DOMAIN objs :
          OnExit(sid) =>
            \A d \in Clients :
              AttachedToDestroyed(d, sid) =>
                /\ FramesOf(out'[d], "session:exit", sid) = 1
                /\ FramesOf(out'[d], "error", NULL) = 0
     /\ \A d \in Clients, sid \in DOMAIN objs :
          AttachedToDestroyed(d, sid) /\ TextFrame(d) => objs' = objs]_vars

\* C40: instant switching loses no output: when the page switches from
\* session S to another session and later back to S, sending hasCache = true
\* because it restored its cached terminal content, the content of its
\* terminal for S (the cached content followed by the frames received after
\* the re-attach) contains every chunk S has produced, the chunks S produced
\* while the page was attached elsewhere included.
C40_SwitchLosesNoOutput ==
  \A c \in Clients :
    LET b == browser[c]
        sid == b.currentSessionId
    IN b.on /\ b.hasCache /\ b.target = NULL /\ sid # NULL /\ state[c].sessionId = sid
       => \A n \in 1..Len(objs[sid].stream) : <<sid, n>> \in b.terminal
====
